---- MODULE Spec2Model ----
(***************************************************************************)
(* Zenject core: provider registration, module graph loading and the       *)
(* lifecycle (shutdown) coordinator.                                        *)
(*                                                                         *)
(* The specifications share the variables:                                 *)
(*   SpecReg   registerProvider called directly on single descriptors       *)
(*   Spec      loadModule over a declared module graph                      *)
(*   SpecLife  AppLifecycle register / listeners / shutdown                 *)
(*   SpecPlug  PluginManager register / load                                *)
(*   SpecBoot  Zenject bootstrap / resolve / container                      *)
(*   SpecDyn   dynamic module descriptors next to a static declaration      *)
(*   SpecGraph loadModule over further module graphs; SpecGraphLive adds   *)
(*             the fairness of the event loop                               *)
(*   SpecFac   registerProvider on factory descriptors, failing ones too    *)
(*   SpecMissing  module references that were never declared                *)
(*   SpecVis   a chain of imports with exported and private providers       *)
(*   SpecRep   a second descriptor for a loaded module name                 *)
(*   SpecPlugFail  plugins whose loader or module fails                     *)
(***************************************************************************)
EXTENDS Integers, Sequences, FiniteSets, TLC

VARIABLES
  registry,        \* AppContainer: token -> current registration
  constructed,     \* class -> number of instances constructed so far
  initLog,         \* sequence of values whose onInit has been invoked
  factoryCalls,    \* factory -> number of invocations
  seen,            \* class -> dependency values observed by its last construction
  resolved,        \* log of caller resolutions: <<token, ok, value>>
  threads,         \* async activations (initializers, import closures, registerProvider calls)
  loadedModules,   \* Set<string> of module names fully initialised
  lazyModules,     \* module name -> initializer (its captured imports and providers)
  moduleExports,   \* module name -> exported providers, in insertion order
  life,            \* AppLifecycle state (see LifeStart)
  plugins,         \* PluginManager state (see NoPlugins)
  zenject          \* the Zenject application object (see NewZenject)

vars == <<registry, constructed, initLog, factoryCalls, seen, resolved, threads,
          loadedModules, lazyModules, moduleExports, life, plugins, zenject>>

----------------------------------------------------------------------------
(* Bounds *)

MaxRegCalls == 2
MaxResolves == 1
MaxLoadCalls == 2
MaxLifeOps == 2
MaxShutdownCalls == 2
MaxPluginRegs == 2
MaxPluginLoads == 2
MaxBootCalls == 2
MaxReads == 2
MaxFacCalls == 3

----------------------------------------------------------------------------
(* Values, classes, tokens *)

Abs == ""  \* an absent (undefined) string-valued field

Undef == [k |-> "undefined", c |-> "", n |-> 0]
Lit(s) == [k |-> "lit", c |-> s, n |-> 0]
Inst(cls, n) == [k |-> "inst", c |-> cls, n |-> n]
Obj(f, n) == [k |-> "obj", c |-> f, n |-> n]

\* module classes
ModuleNames == {"A", "B", "C", "D", "E", "F", "G", "H", "K", "P", "Dy", "T", "U", "V", "W", "Y", "Z", "Config", "App"}
\* component classes
ServiceClasses == {"Service", "SvcD", "Base", "Impl", "Bad"}
Classes == ModuleNames \cup ServiceClasses
\* string tokens
StringTokens == {"API_KEY", "VAL", "TOK", "FAC", "AFAC", "ALIAS", "X"}
Tokens == Classes \cup StringTokens

Factories == {"mk", "mkAsync", "mkThrow", "mkReject"}

\* classes whose instances expose onInit
InitClasses == {"Service", "SvcD", "Impl", "Bad", "A", "D", "E", "P", "V", "W", "App"}
\* factories whose results expose onInit
InitFactories == {"mkAsync"}
\* factories declared async (they return a Promise)
AsyncFactories == {"mkAsync"}
\* factories that throw when invoked
ThrowingFactories == {"mkThrow"}
\* factories that return a promise that rejects
RejectingFactories == {"mkReject"}

\* constructor-injected dependencies of a class
ClassDeps(cls) == IF cls = "Service" THEN <<"API_KEY">> ELSE <<>>

isOnInit(v) ==
  \/ v.k = "inst" /\ v.c \in InitClasses
  \/ v.k = "obj" /\ v.c \in InitFactories

----------------------------------------------------------------------------
(* The container, as the registrar and the resolver use it *)

NoReg == [kind |-> "none", cls |-> Abs, val |-> Undef, tok |-> Abs,
          single |-> FALSE, inst |-> Undef, res |-> FALSE]

World == [reg |-> registry, made |-> constructed, inits |-> initLog,
          facs |-> factoryCalls, seen |-> seen]

safeContainerIsRegistered(w, token) == w.reg[token].kind # "none"

\* container.register(token, {useClass | useValue | useToken}); the newest
\* registration of a token is the one resolve uses
safeContainerRegister(w, token, options) ==
  [w EXCEPT !.reg[token] =
     [kind |-> options.kind, cls |-> options.cls, val |-> options.val,
      tok |-> options.tok, single |-> FALSE, inst |-> Undef, res |-> FALSE]]

UseClass(cls) == [kind |-> "class", cls |-> cls, val |-> Undef, tok |-> Abs]
UseValue(v) == [kind |-> "value", cls |-> Abs, val |-> v, tok |-> Abs]
UseToken(t) == [kind |-> "token", cls |-> Abs, val |-> Undef, tok |-> t]

\* a constructor token is registered as itself, whatever useClass says
safeContainerRegisterSingleton(w, provide, useClass) ==
  [w EXCEPT !.reg[provide] =
     [kind |-> "class",
      cls |-> IF provide \in Classes THEN provide ELSE useClass,
      val |-> Undef, tok |-> Abs, single |-> TRUE, inst |-> Undef, res |-> FALSE]]

MaxDepth == 4
\* initializer calls the call stack holds before the engine throws a RangeError
MaxStack == 4

\* F applied to the value of e (e is evaluated once)
With(e, F(_)) == CHOOSE y \in {F(x) : x \in {e}} : TRUE

RECURSIVE ResolveR(_, _, _)
RECURSIVE ResolveAll(_, _, _)
RECURSIVE ConstructR(_, _, _)

\* resolve every token of a sequence, left to right
ResolveAll(w, toks, d) ==
  IF toks = <<>> THEN [ok |-> TRUE, vals |-> <<>>, w |-> w]
  ELSE With(ResolveR(w, Head(toks), d), LAMBDA h :
         IF ~h.ok THEN [ok |-> FALSE, vals |-> <<>>, w |-> h.w]
         ELSE With(ResolveAll(h.w, Tail(toks), d), LAMBDA t :
                [ok |-> t.ok, vals |-> <<h.val>> \o t.vals, w |-> t.w]))

\* new cls(...deps)
ConstructR(w, cls, d) ==
  With(ResolveAll(w, ClassDeps(cls), d), LAMBDA a :
    IF ~a.ok THEN [ok |-> FALSE, val |-> Undef, w |-> a.w]
    ELSE [ok |-> TRUE, val |-> Inst(cls, a.w.made[cls] + 1),
          w |-> [a.w EXCEPT !.made[cls] = @ + 1, !.seen[cls] = a.vals]])

\* container.resolve(token)
ResolveR(w0, token, d) ==
  With(w0, LAMBDA w :
    IF d = 0 THEN [ok |-> FALSE, val |-> Undef, w |-> w]
    ELSE IF w.reg[token].kind = "none" THEN
      IF token \in Classes THEN ConstructR(w, token, d - 1)
      ELSE [ok |-> FALSE, val |-> Undef, w |-> w]
    ELSE IF w.reg[token].kind = "value" THEN
      [ok |-> TRUE, val |-> w.reg[token].val, w |-> [w EXCEPT !.reg[token].res = TRUE]]
    ELSE IF w.reg[token].kind = "token" THEN
      With(ResolveR(w, w.reg[token].tok, d - 1), LAMBDA t :
        [ok |-> t.ok, val |-> t.val,
         w |-> IF t.ok THEN [t.w EXCEPT !.reg[token].res = TRUE] ELSE t.w])
    ELSE IF w.reg[token].single /\ w.reg[token].inst # Undef THEN
      [ok |-> TRUE, val |-> w.reg[token].inst, w |-> w]
    ELSE
      With(ConstructR(w, w.reg[token].cls, d - 1), LAMBDA c :
        IF ~c.ok THEN c
        ELSE [ok |-> TRUE, val |-> c.val,
              w |-> [c.w EXCEPT !.reg[token].res = TRUE,
                                !.reg[token].inst =
                                  IF w.reg[token].single THEN c.val ELSE Undef]]))

safeContainerResolve(w, token) == ResolveR(w, token, MaxDepth)

----------------------------------------------------------------------------
(* Lifecycle hooks *)

\* callOnInit up to its await: the hook is invoked synchronously
callOnInit(w, instance) ==
  IF isOnInit(instance) THEN [w EXCEPT !.inits = Append(@, instance)] ELSE w

\* classes whose onInit throws or returns a promise that rejects
FailingInit == {"Bad"}

\* the promise callOnInit(instance) returns: an async function turns a throw of
\* the hook and a rejection of the hook's promise alike into a rejection
callOnInitSettles(instance) ==
  IF isOnInit(instance) /\ instance.c \in FailingInit THEN "hookfail" ELSE "hook"

----------------------------------------------------------------------------
(* Provider descriptors *)

\* typ is the JavaScript typeof of the descriptor: "function" for a bare
\* constructor, "object" for a record, "string" for a bare string token.
\* hasValue tells whether the record has a useValue key at all; reading
\* provider.useValue gives undefined both for a missing key and for a key
\* holding undefined.
Provider(typ, provide, useClass, hasValue, useValue, useFactory, useExisting, singleton, deps) ==
  [typ |-> typ, provide |-> provide, useClass |-> useClass, hasValue |-> hasValue,
   useValue |-> useValue, useFactory |-> useFactory, useExisting |-> useExisting,
   singleton |-> singleton, deps |-> deps]

Ctor(cls) == Provider("function", cls, Abs, FALSE, Undef, Abs, Abs, TRUE, <<>>)
ClassP(tok, cls, single) ==
  Provider("object", tok, cls, FALSE, Undef, Abs, Abs, single, <<>>)
ValueP(tok, v) == Provider("object", tok, Abs, TRUE, v, Abs, Abs, TRUE, <<>>)
FactoryP(tok, f, deps) == Provider("object", tok, Abs, FALSE, Undef, f, Abs, TRUE, deps)
ExistingP(tok, target) ==
  Provider("object", tok, Abs, FALSE, Undef, Abs, target, TRUE, <<>>)
\* an object with a token and none of useClass, useValue, useFactory, useExisting
Unsupported(tok) == Provider("object", tok, Abs, FALSE, Undef, Abs, Abs, TRUE, <<>>)
BareToken(tok) == Provider("string", tok, Abs, FALSE, Undef, Abs, Abs, TRUE, <<>>)
NoProvider == Provider("none", Abs, Abs, FALSE, Undef, Abs, Abs, TRUE, <<>>)

isClassProvider(provider) == provider.useClass # Abs
isValueProvider(provider) == provider.useValue # Undef
isFactoryProvider(provider) == provider.useFactory # Abs
isExistingProvider(provider) == provider.useExisting # Abs
isConstructorProvider(provider) == provider.typ = "function"

----------------------------------------------------------------------------
(* registerProvider *)

\* Outcome of a run of registerProvider up to its next await:
\*   st = "hook"     awaiting callOnInit / about to return
\*   st = "hookfail" awaiting callOnInit, whose promise rejects
\*   st = "factory"  awaiting the promise an async factory returned (pend)
\*   st = "factoryfail" awaiting the promise of a factory, which rejects
\*   st = "throw"    the call rejected
Outcome(w, st, pend) == [w |-> w, st |-> st, pend |-> pend]

\* resolve, then call onInit on the resolved instance
ResolveAndInit(w, token) ==
  With(safeContainerResolve(w, token), LAMBDA r :
    IF r.ok THEN Outcome(callOnInit(r.w, r.val), callOnInitSettles(r.val), Undef)
    ELSE Outcome(r.w, "throw", Undef))

\* a registration that stores the result of a further factory invocation instead
\* of the awaited one: C7 does not survive it
registerFactoryResult_Again(w, provider, factoryResult) ==
  Outcome(callOnInit(safeContainerRegister(
                       [w EXCEPT !.facs[provider.useFactory] = @ + 1],
                       provider.provide,
                       UseValue(Obj(provider.useFactory, factoryResult.n + 1))),
                     factoryResult),
          "hook", Undef)

\* register the resolved factory value and init it
registerFactoryResult(w, provider, factoryResult) ==
  Outcome(callOnInit(safeContainerRegister(w, provider.provide, UseValue(factoryResult)),
                     factoryResult),
          "hook", Undef)

\* a factory branch that registers the token before it has the factory's
\* result: C34 does not survive it
registerFactory_RegisterFirst(w, provider) ==
  With(ResolveAll(safeContainerRegister(w, provider.provide, UseValue(Undef)),
                  provider.deps, MaxDepth), LAMBDA d :
    IF ~d.ok THEN Outcome(d.w, "throw", Undef)
    ELSE LET f == provider.useFactory
             n == d.w.facs[f] + 1
         IN With([d.w EXCEPT !.facs[f] = n], LAMBDA w1 :
              IF f \in ThrowingFactories THEN Outcome(w1, "throw", Undef)
              ELSE IF f \in RejectingFactories THEN Outcome(w1, "factoryfail", Undef)
              ELSE IF f \in AsyncFactories
              THEN Outcome(w1, "factory", Obj(f, n))
              ELSE registerFactoryResult(w1, provider, Obj(f, n))))

\* the factory branch: deps are resolved, the factory is invoked once
registerFactory(w, provider) ==
  With(ResolveAll(w, provider.deps, MaxDepth), LAMBDA d :
    IF ~d.ok THEN Outcome(d.w, "throw", Undef)
    ELSE LET f == provider.useFactory
             n == d.w.facs[f] + 1
         IN With([d.w EXCEPT !.facs[f] = n], LAMBDA w1 :
              IF f \in ThrowingFactories THEN Outcome(w1, "throw", Undef)
              ELSE IF f \in RejectingFactories THEN Outcome(w1, "factoryfail", Undef)
              ELSE IF f \in AsyncFactories
              THEN Outcome(w1, "factory", Obj(f, n))
              ELSE registerFactoryResult(w1, provider, Obj(f, n))))

registerProvider(w0, provider) ==
 With(w0, LAMBDA w :
  IF isConstructorProvider(provider) THEN
    IF ~safeContainerIsRegistered(w, provider.provide)
    THEN ResolveAndInit(
           safeContainerRegisterSingleton(w, provider.provide, provider.provide),
           provider.provide)
    ELSE Outcome(w, "hook", Undef)
  ELSE IF isClassProvider(provider) THEN
    IF ~safeContainerIsRegistered(w, provider.provide)
    THEN ResolveAndInit(
           IF provider.singleton = FALSE
           THEN safeContainerRegister(w, provider.provide, UseClass(provider.useClass))
           ELSE safeContainerRegisterSingleton(w, provider.provide, provider.useClass),
           provider.provide)
    ELSE Outcome(w, "hook", Undef)
  ELSE IF isValueProvider(provider) THEN
    IF ~safeContainerIsRegistered(w, provider.provide)
    THEN Outcome(safeContainerRegister(w, provider.provide, UseValue(provider.useValue)),
                 "hook", Undef)
    ELSE Outcome(w, "hook", Undef)
  ELSE IF isFactoryProvider(provider) THEN
    IF ~safeContainerIsRegistered(w, provider.provide)
    THEN registerFactory(w, provider)
    ELSE Outcome(w, "hook", Undef)
  ELSE IF isExistingProvider(provider) THEN
    IF ~safeContainerIsRegistered(w, provider.provide)
    THEN Outcome(safeContainerRegister(w, provider.provide, UseToken(provider.useExisting)),
                 "hook", Undef)
    ELSE Outcome(w, "hook", Undef)
  ELSE Outcome(w, "throw", Undef))

----------------------------------------------------------------------------
(* Async activations *)

\* kind "reg":    a direct registerProvider call
\* kind "init":   one run of a module initializer
\* kind "import": one closure of an initializer's imports.map
\* inflight is bookkeeping: for a loadModule call, the number of earlier
\* loadModule calls that had not settled when it was made
Thread(kind, mod, parent, child, pc, sub, idx, cur, pend, imports, providers) ==
  [kind |-> kind, mod |-> mod, parent |-> parent, child |-> child, pc |-> pc,
   sub |-> sub, idx |-> idx, cur |-> cur, pend |-> pend,
   imports |-> imports, providers |-> providers, inflight |-> 0]

RegThread(provider, o) ==
  Thread("reg", Abs, 0, 0,
         IF o.st = "throw" THEN "failed" ELSE "reg",
         IF o.st = "throw" THEN Abs ELSE o.st,
         0, provider, o.pend, <<>>, <<>>)

SetWorld(w) ==
  /\ registry' = w.reg
  /\ constructed' = w.made
  /\ initLog' = w.inits
  /\ factoryCalls' = w.facs
  /\ seen' = w.seen

EmptyWorld ==
  /\ registry = [t \in Tokens |-> NoReg]
  /\ constructed = [c \in Classes |-> 0]
  /\ initLog = <<>>
  /\ factoryCalls = [f \in Factories |-> 0]
  /\ seen = [c \in Classes |-> <<>>]
  /\ resolved = <<>>

----------------------------------------------------------------------------
(* Declared modules: the @Module decorations evaluated at program start *)

ModuleDef(imports, providers, exports) ==
  [defined |-> TRUE, imports |-> imports, providers |-> providers, exports |-> exports]

Declared(name) ==
  CASE name = "D" -> ModuleDef(<<>>, <<>>, <<>>)
    [] name = "B" -> ModuleDef(<<"D">>, <<>>, <<>>)
    [] name = "C" -> ModuleDef(<<"D">>, <<>>, <<>>)
    [] name = "A" -> ModuleDef(<<"B", "C">>, <<>>, <<>>)
    [] name = "E" -> ModuleDef(<<>>,
                               <<Ctor("SvcD"), ClassP("TOK", "Impl", TRUE),
                                 FactoryP("AFAC", "mkAsync", <<>>)>>,
                               <<Ctor("SvcD"), ClassP("TOK", "Impl", TRUE),
                                 FactoryP("AFAC", "mkAsync", <<>>), Ctor("Base")>>)
    [] name = "F" -> ModuleDef(<<"E">>, <<ValueP("VAL", Lit("k1"))>>, <<>>)
    [] name = "G" -> ModuleDef(<<>>, <<Ctor("Bad"), ValueP("VAL", Lit("k1"))>>, <<>>)
    [] name = "H" -> ModuleDef(<<"F">>, <<>>, <<>>)
    [] name = "K" -> ModuleDef(<<"Dy">>, <<>>, <<>>)
    [] name = "P" -> ModuleDef(<<>>, <<Ctor("SvcD")>>, <<>>)
    [] name = "Dy" -> ModuleDef(<<"D">>, <<Ctor("SvcD")>>, <<Ctor("SvcD")>>)
    [] name = "T" -> ModuleDef(<<>>,
                               <<ClassP("TOK", "Impl", FALSE), ClassP("X", "Base", TRUE)>>,
                               <<ClassP("TOK", "Impl", FALSE), ClassP("X", "Base", TRUE)>>)
    [] name = "U" -> ModuleDef(<<"T">>, <<>>, <<>>)
    [] name = "W" -> ModuleDef(<<>>, <<Ctor("SvcD"), Unsupported("VAL")>>, <<>>)
    [] name = "V" -> ModuleDef(<<"W">>, <<>>, <<>>)
    [] name = "Y" -> ModuleDef(<<"Z">>, <<>>, <<>>)
    [] name = "Z" -> ModuleDef(<<"Y">>, <<>>, <<>>)
    [] name = "Config" -> ModuleDef(<<>>, <<ValueP("API_KEY", Lit("k1"))>>,
                                    <<BareToken("API_KEY")>>)
    [] name = "App" -> ModuleDef(<<"Config">>, <<Ctor("Service")>>, <<>>)

\* Module(options)(target): records the exports and the initializer
ModuleDecorated ==
  /\ lazyModules = [m \in ModuleNames |->
       [defined |-> TRUE, by |-> "Module", imports |-> Declared(m).imports,
        providers |-> Declared(m).providers]]
  /\ moduleExports = [m \in ModuleNames |-> Declared(m).exports]
  /\ loadedModules = {}

----------------------------------------------------------------------------
(* Module initializers *)

InitThread(mod, parent, pc, imports, providers) ==
  Thread("init", mod, parent, 0, pc, Abs, 0, NoProvider, Undef, imports, providers)

ImportThread(mod, parent, child, pc) ==
  Thread("import", mod, parent, child, pc, Abs, 0, NoProvider, Undef, <<>>, <<>>)

\* an initializer without the loadedModules check: C1 does not survive it
AlreadyLoaded_Never(name) == FALSE

\* the loadedModules check at the head of the initializer
AlreadyLoaded(name) == name \in loadedModules

RECURSIVE InvokeAt(_, _, _, _)
RECURSIVE SpawnImportsAt(_, _, _, _, _)

\* an initializer that calls none of its imports: C31 does not survive it
SpawnImportsAt_Skip(imports, i, base, parent, depth) == <<>>

\* imports.map(async (importedModule) => ...): every closure runs up to its
\* first await, which is the await of the imported module's initializer.
\* The result is the sequence of activations created, the first of which gets
\* the index base + 1.
\* depth is the number of initializer calls on the call stack.
SpawnImportsAt(imports, i, base, parent, depth) ==
  IF i > Len(imports) THEN <<>>
  ELSE LET name == imports[i]
           mine == IF lazyModules[name].defined
                   THEN <<ImportThread(name, parent, base + 2, "waitInit")>>
                        \o InvokeAt(name, base + 1, base + 1, depth)
                   ELSE <<ImportThread(name, parent, 0, "done")>>
       IN mine \o SpawnImportsAt(imports, i + 1, base + Len(mine), parent, depth)

\* a call of the initializer of module `name`, up to `await Promise.all(importPromises)`
\* A call nested deeper than the call stack allows throws a RangeError, which
\* the async initializer turns into a rejection.
InvokeAt(name, base, parent, depth) ==
  IF depth > MaxStack
  THEN <<InitThread(name, parent, "failed", <<>>, <<>>)>>
  ELSE IF AlreadyLoaded(name)
  THEN <<InitThread(name, parent, "done", <<>>, <<>>)>>
  ELSE <<InitThread(name, parent, "imports",
                    lazyModules[name].imports, lazyModules[name].providers)>>
       \o SpawnImportsAt(lazyModules[name].imports, 1, base + 1, base + 1, depth + 1)

\* the import closures of an initializer called from outside any initializer
SpawnImports(imports, i, base, parent) == SpawnImportsAt(imports, i, base, parent, 2)

\* an initializer called from outside any initializer
Invoke(name, base, parent) == InvokeAt(name, base, parent, 1)

\* what a suspended or finished run of a loop leaves in its thread
Susp(w, pc, sub, idx, cur, pend) ==
  [w |-> w, pc |-> pc, sub |-> sub, idx |-> idx, cur |-> cur, pend |-> pend]

\* steps 5-6 of the initializer: register the module class, resolve it, call onInit
registerModuleItself(w, mod, idx) ==
  With(safeContainerResolve(IF ~safeContainerIsRegistered(w, mod)
                            THEN safeContainerRegisterSingleton(w, mod, mod) ELSE w,
                            mod),
       LAMBDA r :
         IF r.ok THEN Susp(callOnInit(r.w, r.val), "self", callOnInitSettles(r.val),
                           idx, NoProvider, Undef)
         ELSE Susp(r.w, "failed", Abs, idx, NoProvider, Undef))

\* a provider loop that goes on after a registerProvider that threw: C30 does
\* not survive it
registerAllProviders_GoOn(w, mod, providers, i) ==
  IF i > Len(providers) THEN registerModuleItself(w, mod, i)
  ELSE With(registerProvider(w, providers[i]), LAMBDA o :
         IF o.st = "throw" THEN Susp(o.w, "prov", "hook", i, providers[i], Undef)
         ELSE Susp(o.w, "prov", o.st, i, providers[i], o.pend))

\* `for (const provider of providers) await registerProvider(provider)` from
\* index i, up to the next await
registerAllProviders(w, mod, providers, i) ==
  IF i > Len(providers) THEN registerModuleItself(w, mod, i)
  ELSE With(registerProvider(w, providers[i]), LAMBDA o :
         IF o.st = "throw" THEN Susp(o.w, "failed", Abs, i, providers[i], Undef)
         ELSE Susp(o.w, "prov", o.st, i, providers[i], o.pend))

\* a propagation that registers the export's class again instead of the resolved
\* instance: C3 does not survive it
reRegisterExisting_Class(w, provider, existing) ==
  safeContainerRegister(w, provider.provide,
                        IF isClassProvider(provider) THEN UseClass(provider.useClass)
                        ELSE UseValue(existing))

\* the export is already registered: resolve it and register the instance
reRegisterExisting(w, provider, existing) ==
  safeContainerRegister(w, provider.provide, UseValue(existing))

\* a propagation that registers no export that is missing: C36 does not survive it
registerExport_Skip(w, provider, j) == Susp(w, "exp", "hook", j, provider, Undef)

\* registerProvider(provider) called from the loop over the exports
registerExport(w, provider, j) ==
  With(registerProvider(w, provider), LAMBDA o :
    IF o.st = "throw" THEN Susp(o.w, "failed", Abs, j, provider, Undef)
    ELSE Susp(o.w, "exp", o.st, j, provider, o.pend))

RECURSIVE registerExportedProviders(_, _, _)
\* the loop over the exported providers from index j, up to the next await
registerExportedProviders(w0, exported, j) ==
 With(w0, LAMBDA w :
  IF j > Len(exported) THEN Susp(w, "done", Abs, j, NoProvider, Undef)
  ELSE LET provider == exported[j] IN
    IF provider.typ = "function" THEN
      IF ~safeContainerIsRegistered(w, provider.provide)
      THEN registerExport(w, provider, j)
      ELSE registerExportedProviders(w, exported, j + 1)
    ELSE IF provider.typ # "object" THEN
      \* `"provide" in provider` on a primitive throws a TypeError
      Susp(w, "failed", Abs, j, provider, Undef)
    ELSE IF provider.provide # Abs THEN
      IF ~safeContainerIsRegistered(w, provider.provide)
      THEN registerExport(w, provider, j)
      ELSE With(safeContainerResolve(w, provider.provide), LAMBDA existing :
             IF ~existing.ok THEN Susp(existing.w, "failed", Abs, j, provider, Undef)
             ELSE registerExportedProviders(
                    reRegisterExisting(existing.w, provider, existing.val),
                    exported, j + 1))
    ELSE registerExportedProviders(w, exported, j + 1))

Apply(t, s) ==
  /\ SetWorld(s.w)
  /\ threads' = [threads EXCEPT ![t].pc = s.pc, ![t].sub = s.sub, ![t].idx = s.idx,
                                ![t].cur = s.cur, ![t].pend = s.pend]

\* an initializer that does not wait for its import closures: C24 does not
\* survive it
Closures_None(t) == {}

Closures(t) == {j \in DOMAIN threads : threads[j].kind = "import" /\ threads[j].parent = t}

----------------------------------------------------------------------------
(* Dynamic modules *)

\* a DynamicModule descriptor
DynamicModule(module, imports, providers, exports) ==
  [module |-> module, imports |-> imports, providers |-> providers, exports |-> exports]

\* a processDynamicModule that records no exports: C22 does not survive it
processDynamicModule_NoExports(lazy, exports, dm) ==
  [lazy |-> [lazy EXCEPT ![dm.module] =
               [defined |-> TRUE, by |-> "processDynamicModule",
                imports |-> dm.imports, providers |-> dm.providers]],
   exports |-> [exports EXCEPT ![dm.module] = <<>>]]

\* a processDynamicModule that keeps the recorded exports of a loaded module:
\* C37 does not survive it
processDynamicModule_KeepExports(lazy, exports, dm) ==
  [lazy |-> [lazy EXCEPT ![dm.module] =
               [defined |-> TRUE, by |-> "processDynamicModule",
                imports |-> dm.imports, providers |-> dm.providers]],
   exports |-> IF dm.module \in loadedModules THEN exports
               ELSE [exports EXCEPT ![dm.module] = dm.exports]]

\* processDynamicModule(dynamicModule): the exports and a new initializer are
\* stored under the module's name, replacing what was there
processDynamicModule(lazy, exports, dm) ==
  [lazy |-> [lazy EXCEPT ![dm.module] =
               [defined |-> TRUE, by |-> "processDynamicModule",
                imports |-> dm.imports, providers |-> dm.providers]],
   exports |-> [exports EXCEPT ![dm.module] = dm.exports]]

\* an initializer without the loadedModules check: C23 does not survive it
InvokeDynamic_NoCheck(dm, base, parent) ==
  <<InitThread(dm.module, parent, "imports", dm.imports, dm.providers)>>
  \o SpawnImports(dm.imports, 1, base + 1, base + 1)

\* a call of the initializer made by processDynamicModule, up to
\* `await Promise.all(importPromises)`
InvokeDynamic(dm, base, parent) ==
  IF dm.module \in loadedModules
  THEN <<InitThread(dm.module, parent, "done", <<>>, <<>>)>>
  ELSE <<InitThread(dm.module, parent, "imports", dm.imports, dm.providers)>>
       \o SpawnImports(dm.imports, 1, base + 1, base + 1)

----------------------------------------------------------------------------
(* AppLifecycle *)

Events == <<"beforeShutdown", "shutdown", "afterShutdown">>
EventSet == {Events[i] : i \in DOMAIN Events}

\* listener functions and what a call of each does
Listeners == {"L1", "L2", "L3", "L4"}
ListenerKind(l) ==
  CASE l = "L1" -> "sync"     \* returns undefined
    [] l = "L2" -> "async"    \* returns a promise that fulfils
    [] l = "L3" -> "throw"    \* throws synchronously
    [] l = "L4" -> "reject"   \* returns a promise that rejects

\* classes whose instances expose onDestroy, and what the hook does
DestroyClasses == {"SvcD", "Impl", "Base", "Service"}
DestroyKind(cls) ==
  CASE cls = "SvcD" -> "sync"
    [] cls = "Impl" -> "async"
    [] cls = "Base" -> "reject"
    [] cls = "Service" -> "throw"

isOnDestroy(v) == v.k = "inst" /\ v.c \in DestroyClasses

NoExit == -1

\* after is bookkeeping: the call was made when an earlier one had completed
ShutdownRun(exitCode, handler, pc) ==
  [exitCode |-> exitCode, handler |-> handler, pc |-> pc, pend |-> {}, rej |-> FALSE,
   after |-> FALSE]

Completed(lf) == \E c \in DOMAIN lf.calls : lf.calls[c].pc = "done"

Entry(ev, x, call) == [ev |-> ev, x |-> x, call |-> call]

\* installs is the number of calls of registerExitHandlers, each of which adds
\* one handler to each of the four process events
LifeStart(listeners, testEnv) ==
  [isShuttingDown |-> FALSE, exitHandlersRegistered |-> FALSE, installs |-> 0,
   managedInstances |-> <<>>, listeners |-> listeners, calls |-> <<>>,
   log |-> <<>>, ops |-> 0, testEnv |-> testEnv, exit |-> NoExit,
   lastOp |-> [x \in {} |-> ""]]

NoListeners == [e \in EventSet |-> <<>>]

InSeq(x, seq) == \E i \in DOMAIN seq : seq[i] = x
Without(seq, x) == SelectSeq(seq, LAMBDA y : y # x)

\* a register that installs the exit handlers whenever the instance has the
\* hook: C39 does not survive it
register_Reinstall(lf, instance) ==
  IF isOnDestroy(instance)
  THEN [lf EXCEPT !.managedInstances =
                    IF InSeq(instance, @) THEN @ ELSE Append(@, instance),
                  !.installs = @ + 1,
                  !.exitHandlersRegistered = TRUE]
  ELSE lf

\* AppLifecycle.register(instance)
register(lf, instance) ==
  IF isOnDestroy(instance)
  THEN [lf EXCEPT !.managedInstances =
                    IF InSeq(instance, @) THEN @ ELSE Append(@, instance),
                  !.installs = IF lf.exitHandlersRegistered THEN @ ELSE @ + 1,
                  !.exitHandlersRegistered = TRUE]
  ELSE lf

\* AppLifecycle.unregister(instance)
unregister(lf, instance) ==
  [lf EXCEPT !.managedInstances = Without(@, instance)]

addEventListener(lf, event, listener) ==
  [lf EXCEPT !.listeners[event] = IF InSeq(listener, @) THEN @ ELSE Append(@, listener)]

removeEventListener(lf, event, listener) ==
  [lf EXCEPT !.listeners[event] = Without(@, listener)]

\* an emitEvent whose loop ends at the first listener that throws: C12 does not
\* survive it
emitEvent_StopAtThrow(lf, c, event) ==
  LET ls == lf.listeners[event]
      thrown == {i \in DOMAIN ls : ListenerKind(ls[i]) = "throw"}
      upto == IF thrown = {} THEN Len(ls)
              ELSE CHOOSE i \in thrown : \A j \in thrown : i <= j
      called == [i \in 1..upto |-> Entry(event, Lit(ls[i]), c)]
      promises == {Lit(ls[i]) : i \in {j \in 1..upto : ListenerKind(ls[j]) \in {"async", "reject"}}}
  IN [lf EXCEPT !.log = @ \o called,
                !.calls[c].pc = event,
                !.calls[c].pend = promises,
                !.calls[c].rej = FALSE]

\* emitEvent(event) in run c, up to `await Promise.all(promises)`: every listener
\* is called in order, a synchronous throw is caught, returned promises are collected
emitEvent(lf, c, event) ==
  LET ls == lf.listeners[event]
      called == [i \in DOMAIN ls |-> Entry(event, Lit(ls[i]), c)]
      promises == {Lit(ls[i]) : i \in {j \in DOMAIN ls : ListenerKind(ls[j]) \in {"async", "reject"}}}
  IN [lf EXCEPT !.log = @ \o called,
                !.calls[c].pc = event,
                !.calls[c].pend = promises,
                !.calls[c].rej = FALSE]

\* registry.registrations: the registered tokens. The container of SpecLife is
\* filled in this order and no token is registered during a shutdown.
TokenOrder == <<"SvcD", "TOK", "VAL", "FAC", "AFAC", "ALIAS", "API_KEY", "X",
                "Service", "Base", "Impl", "Bad", "A", "B", "C", "D", "E", "F", "G", "H", "K", "P",
                "Dy", "T", "U", "V", "W", "Y", "Z", "Config", "App">>

registeredTokens(w) == SelectSeq(TokenOrder, LAMBDA t : w.reg[t].kind # "none")

RECURSIVE collectInstances_Forced(_, _, _, _)
\* a collection that resolves every registered token, resolved before or not:
\* C15 does not survive it
collectInstances_Forced(w, toks, i, all) ==
  IF i > Len(toks) THEN [w |-> w, all |-> all]
  ELSE IF safeContainerIsRegistered(w, toks[i])
       THEN With(safeContainerResolve(w, toks[i]), LAMBDA r :
              With(IF r.ok /\ isOnDestroy(r.val) THEN Append(all, r.val) ELSE all,
                   LAMBDA more : collectInstances_Forced(r.w, toks, i + 1, more)))
       ELSE collectInstances_Forced(w, toks, i + 1, all)

RECURSIVE collectInstances(_, _, _, _)
\* the loop over the registered tokens: only resolved ones are resolved again
collectInstances(w, toks, i, all) ==
  IF i > Len(toks) THEN [w |-> w, all |-> all]
  ELSE IF safeContainerIsRegistered(w, toks[i]) /\ w.reg[toks[i]].res
       THEN With(safeContainerResolve(w, toks[i]), LAMBDA r :
              With(IF r.ok /\ isOnDestroy(r.val) THEN Append(all, r.val) ELSE all,
                   LAMBDA more : collectInstances(r.w, toks, i + 1, more)))
       ELSE collectInstances(w, toks, i + 1, all)

\* a shutdown that leaves the explicitly registered instances out: C14 does not
\* survive it
addManaged_None(all, managed, i) == all

RECURSIVE addManaged(_, _, _)
\* explicitly registered instances are added unless already collected
addManaged(all, managed, i) ==
  IF i > Len(managed) THEN all
  ELSE With(IF InSeq(managed[i], all) THEN all ELSE Append(all, managed[i]),
            LAMBDA more : addManaged(more, managed, i + 1))

\* allInstances.map(callOnDestroy) in run c, up to `await Promise.all(destroyPromises)`:
\* each hook is invoked at once; a hook that throws makes its promise rejected
destroyAll(lf, c, all) ==
  LET invoked == [i \in DOMAIN all |-> Entry("onDestroy", all[i], c)]
      kinds == [i \in DOMAIN all |-> DestroyKind(all[i].c)]
      settledNow == SelectSeq(invoked, LAMBDA e : DestroyKind(e.x.c) = "sync")
  IN [lf EXCEPT !.log = @ \o invoked \o
                        [i \in DOMAIN settledNow |-> Entry("settled", settledNow[i].x, c)],
                !.calls[c].pc = "destroy",
                !.calls[c].pend = {all[i] : i \in {j \in DOMAIN all :
                                                     kinds[j] \in {"async", "reject"}}},
                !.calls[c].rej = \E i \in DOMAIN all : kinds[i] = "throw"]

\* a shutdown() without the isShuttingDown guard: C10 does not survive it
AlreadyShuttingDown_Never(lf) == FALSE

\* a guard that lets a call through until a shutdown has completed: C40 does
\* not survive it
AlreadyShuttingDown_WhenDone(lf) == Completed(lf)

\* the isShuttingDown guard at the head of shutdown()
AlreadyShuttingDown(lf) == lf.isShuttingDown

----------------------------------------------------------------------------
(* PluginManager *)

PluginNames == {"ext", "named", "both", "empty", "ghost"}
Loaders == {"ldDefault", "ldNamed", "ldBoth", "ldEmpty", "ldBad", "ldReject"}
\* the loader functions whose promise rejects
RejectingLoaders == {"ldReject"}

\* a ModuleImport: the default export and the other exports in the order of
\* Object.values; Abs stands for undefined
ModuleImport(default, named) == [default |-> default, named |-> named]

\* what the promise returned by each loader function fulfils with
LoaderResult(loader) ==
  CASE loader = "ldDefault" -> ModuleImport("P", <<>>)
    [] loader = "ldNamed" -> ModuleImport(Abs, <<Abs, "D", "P">>)
    [] loader = "ldBoth" -> ModuleImport("P", <<"D">>)
    [] loader = "ldEmpty" -> ModuleImport(Abs, <<Abs>>)
    [] loader = "ldBad" -> ModuleImport("G", <<>>)
    [] loader = "ldReject" -> ModuleImport(Abs, <<>>)

\* pluginRegistry (a name without loader maps to Abs), loadedPlugins, and the
\* number of times each plugin's loader function has been called
NoPlugins ==
  [registry |-> [n \in PluginNames |-> Abs], loaded |-> {},
   invoked |-> [n \in PluginNames |-> 0], regs |-> 0]

\* PluginManager.register(name, loader)
pluginRegister(pl, name, loader) == [pl EXCEPT !.registry[name] = loader]

isRegistered(pl, name) == pl.registry[name] # Abs

\* a load() that never takes a plugin for loaded: C18 does not survive it
isLoaded_Never(pl, name) == FALSE

isLoaded(pl, name) == name \in pl.loaded

\* a choice that prefers the named exports to the default export: C20 does not
\* survive it
moduleToLoad_NamedFirst(moduleImport) ==
  LET defined == SelectSeq(moduleImport.named, LAMBDA v : v # Abs)
  IN IF defined # <<>> THEN Head(defined) ELSE moduleImport.default

\* moduleImport.default || Object.values(moduleImport).find(v => v !== undefined)
moduleToLoad(moduleImport) ==
  IF moduleImport.default # Abs THEN moduleImport.default
  ELSE LET defined == SelectSeq(moduleImport.named, LAMBDA v : v # Abs)
       IN IF defined = <<>> THEN Abs ELSE Head(defined)

\* loadedPlugins.add(name)
markLoaded(pl, name) == [pl EXCEPT !.loaded = @ \cup {name}]

----------------------------------------------------------------------------
(* Zenject *)

\* new Zenject(root): #ready and #root; reads is the log of the resolve() calls
\* and container reads made so far, each with its outcome
NewZenject(root) == [ready |-> FALSE, root |-> root, reads |-> <<>>]

\* a Zenject whose resolve() and container skip the #ready test: C21 does not
\* survive it
isReady_Always(z) == TRUE

\* the `if (!this.#ready) throw` test of resolve() and of the container getter
isReady(z) == z.ready

----------------------------------------------------------------------------
(* Callers of the container *)

\* AppContainer.resolve(token) by application code
CallerResolve(token) ==
  /\ Len(resolved) < MaxResolves
  /\ safeContainerIsRegistered(World, token)
  /\ \E r \in {safeContainerResolve(World, token)} :
       /\ SetWorld(r.w)
       /\ resolved' = Append(resolved, <<token, r.ok, r.val>>)
  /\ UNCHANGED <<threads, loadedModules, lazyModules, moduleExports, life, plugins, zenject>>

----------------------------------------------------------------------------
(* SpecReg: registerProvider called on single descriptors *)

RegInputs ==
  { Ctor("SvcD"),
    ClassP("TOK", "Impl", TRUE), ClassP("TOK", "Impl", FALSE), ClassP("Base", "Impl", TRUE),
    ValueP("VAL", Lit("k1")), ValueP("VAL", Lit("null")), ValueP("VAL", Undef),
    FactoryP("FAC", "mk", <<>>), FactoryP("AFAC", "mkAsync", <<"VAL">>),
    FactoryP("AFAC", "mkAsync", <<>>),
    ExistingP("ALIAS", "VAL"),
    Provider("object", "X", Abs, FALSE, Undef, Abs, Abs, TRUE, <<>>),
    Provider("object", "TOK", "Impl", TRUE, Lit("k1"), Abs, Abs, TRUE, <<>>) }

\* await registerProvider(provider): the call runs up to its first await
CallRegisterProvider(provider) ==
  /\ Len(threads) < MaxRegCalls
  /\ \E o \in {registerProvider(World, provider)} :
       /\ SetWorld(o.w)
       /\ threads' = Append(threads, RegThread(provider, o))
  /\ UNCHANGED <<resolved, loadedModules, lazyModules, moduleExports, life, plugins, zenject>>

\* the promise of an async factory fulfils: register the value, init it
FactorySettles(t) ==
  /\ threads[t].pc \in {"reg", "prov", "exp"}
  /\ threads[t].sub = "factory"
  /\ \E o \in {registerFactoryResult(World, threads[t].cur, threads[t].pend)} :
       /\ SetWorld(o.w)
       /\ threads' = [threads EXCEPT ![t].sub = "hook", ![t].pend = Undef]
  /\ UNCHANGED <<resolved, loadedModules, lazyModules, moduleExports, life, plugins, zenject>>

\* the promise of the factory rejects: registerProvider rejects at its await
FactoryRejects(t) ==
  /\ threads[t].pc \in {"reg", "prov", "exp"}
  /\ threads[t].sub = "factoryfail"
  /\ threads' = [threads EXCEPT ![t].pc = "failed"]
  /\ UNCHANGED <<registry, constructed, initLog, factoryCalls, seen, resolved,
                 loadedModules, lazyModules, moduleExports, life, plugins, zenject>>

\* a direct registerProvider call returns to its caller
RegisterProviderReturns(t) ==
  /\ threads[t].pc = "reg"
  /\ threads[t].sub = "hook"
  /\ threads' = [threads EXCEPT ![t].pc = "done", ![t].sub = Abs]
  /\ UNCHANGED <<registry, constructed, initLog, factoryCalls, seen, resolved,
                 loadedModules, lazyModules, moduleExports, life, plugins, zenject>>

InitReg ==
  /\ EmptyWorld
  /\ threads = <<>>
  /\ ModuleDecorated
  /\ life = LifeStart(NoListeners, TRUE)
  /\ plugins = NoPlugins
  /\ zenject = NewZenject("D")

NextReg ==
  \/ \E provider \in RegInputs : CallRegisterProvider(provider)
  \/ \E t \in DOMAIN threads : FactorySettles(t)
  \/ \E t \in DOMAIN threads : RegisterProviderReturns(t)
  \/ \E token \in Tokens : CallerResolve(token)

SpecReg == InitReg /\ [][NextReg]_vars

----------------------------------------------------------------------------
(* SpecFac: registerProvider called on factory descriptors that can fail *)

FacInputs ==
  { FactoryP("FAC", "mkThrow", <<>>), FactoryP("FAC", "mkReject", <<>>),
    FactoryP("FAC", "mk", <<"TOK", "VAL">>), FactoryP("AFAC", "mkAsync", <<"VAL">>),
    FactoryP("AFAC", "mkReject", <<"TOK">>),
    ClassP("TOK", "Impl", TRUE), ValueP("VAL", Lit("k1")) }

\* await registerProvider(provider): the call runs up to its first await
CallRegisterFactory(provider) ==
  /\ Len(threads) < MaxFacCalls
  /\ \E o \in {registerProvider(World, provider)} :
       /\ SetWorld(o.w)
       /\ threads' = Append(threads, RegThread(provider, o))
  /\ UNCHANGED <<resolved, loadedModules, lazyModules, moduleExports, life, plugins, zenject>>

NextFac ==
  \/ \E provider \in FacInputs : CallRegisterFactory(provider)
  \/ \E t \in DOMAIN threads : FactorySettles(t)
  \/ \E t \in DOMAIN threads : FactoryRejects(t)
  \/ \E t \in DOMAIN threads : RegisterProviderReturns(t)

SpecFac == InitReg /\ [][NextFac]_vars

----------------------------------------------------------------------------
(* Spec: loadModule over the declared module graph *)

\* the modules application code loads
Roots == {"A", "D", "E", "F", "G", "App"}

TopLevel == {t \in DOMAIN threads : threads[t].kind = "init" /\ threads[t].parent = 0}

\* the loadModule calls that have not settled
InFlight == {t \in TopLevel : threads[t].pc \notin {"done", "failed"}}

\* a loadModule that rejects a reference without initializer: C35 does not survive it
LoadModule_Throw(name) ==
  /\ Cardinality(TopLevel) < MaxLoadCalls
  /\ threads' = [(threads \o
                    IF lazyModules[name].defined
                    THEN Invoke(name, Len(threads), 0)
                    ELSE <<InitThread(name, 0, "failed", <<>>, <<>>)>>)
                 EXCEPT ![Len(threads) + 1].inflight = Cardinality(InFlight)]
  /\ UNCHANGED <<registry, constructed, initLog, factoryCalls, seen, resolved,
                 loadedModules, lazyModules, moduleExports, life, plugins, zenject>>

\* loadModule(module) for a module class
LoadModule(name) ==
  /\ Cardinality(TopLevel) < MaxLoadCalls
  /\ threads' = [(threads \o
                    IF lazyModules[name].defined
                    THEN Invoke(name, Len(threads), 0)
                    ELSE <<InitThread(name, 0, "done", <<>>, <<>>)>>)
                 EXCEPT ![Len(threads) + 1].inflight = Cardinality(InFlight)]
  /\ UNCHANGED <<registry, constructed, initLog, factoryCalls, seen, resolved,
                 loadedModules, lazyModules, moduleExports, life, plugins, zenject>>

\* `await Promise.all(importPromises)` rejects as soon as one import closure rejects
ImportsRejected(t) ==
  /\ threads[t].kind = "init" /\ threads[t].pc = "imports"
  /\ \E j \in Closures(t) : threads[j].pc = "failed"
  /\ threads' = [threads EXCEPT ![t].pc = "failed"]
  /\ UNCHANGED <<registry, constructed, initLog, factoryCalls, seen, resolved,
                 loadedModules, lazyModules, moduleExports, life, plugins, zenject>>

\* all imports settled: register the module's own providers
ImportsDone(t) ==
  /\ threads[t].kind = "init" /\ threads[t].pc = "imports"
  /\ \A j \in Closures(t) : threads[j].pc = "done"
  /\ \E s \in {registerAllProviders(World, threads[t].mod, threads[t].providers, 1)} :
       Apply(t, s)
  /\ UNCHANGED <<resolved, loadedModules, lazyModules, moduleExports, life, plugins, zenject>>

\* registerProvider(providers[idx]) returned: go on with the next provider
ProviderRegistered(t) ==
  /\ threads[t].kind = "init" /\ threads[t].pc = "prov" /\ threads[t].sub = "hook"
  /\ \E s \in {registerAllProviders(World, threads[t].mod, threads[t].providers,
                                     threads[t].idx + 1)} :
       Apply(t, s)
  /\ UNCHANGED <<resolved, loadedModules, lazyModules, moduleExports, life, plugins, zenject>>

\* `await callOnInit(instance)` rejects: nothing catches it, so registerProvider
\* rejects and with it the loop or the initializer that awaited it
HookRejects(t) ==
  /\ threads[t].pc \in {"prov", "exp", "self"} /\ threads[t].sub = "hookfail"
  /\ threads' = [threads EXCEPT ![t].pc = "failed"]
  /\ UNCHANGED <<registry, constructed, initLog, factoryCalls, seen, resolved,
                 loadedModules, lazyModules, moduleExports, life, plugins, zenject>>

\* callOnInit(moduleInstance) returned: mark the module loaded
MarkLoaded(t) ==
  /\ threads[t].kind = "init" /\ threads[t].pc = "self" /\ threads[t].sub = "hook"
  /\ loadedModules' = loadedModules \cup {threads[t].mod}
  /\ threads' = [threads EXCEPT ![t].pc = "done"]
  /\ UNCHANGED <<registry, constructed, initLog, factoryCalls, seen, resolved,
                 lazyModules, moduleExports, life, plugins, zenject>>

\* the imported module's initializer settled: propagate its exports
ImportLoaded(t) ==
  /\ threads[t].kind = "import" /\ threads[t].pc = "waitInit"
  /\ threads[threads[t].child].pc \in {"done", "failed"}
  /\ IF threads[threads[t].child].pc = "failed"
     THEN /\ threads' = [threads EXCEPT ![t].pc = "failed"]
          /\ UNCHANGED <<registry, constructed, initLog, factoryCalls, seen>>
     ELSE \E s \in {registerExportedProviders(World, moduleExports[threads[t].mod], 1)} :
            /\ SetWorld(s.w)
            /\ threads' = [threads EXCEPT ![t].pc = s.pc, ![t].sub = s.sub,
                                          ![t].idx = s.idx, ![t].cur = s.cur,
                                          ![t].pend = s.pend,
                                          ![t].providers = moduleExports[threads[t].mod]]
  /\ UNCHANGED <<resolved, loadedModules, lazyModules, moduleExports, life, plugins, zenject>>

\* registerProvider(exported[idx]) returned: go on with the next export
ExportRegistered(t) ==
  /\ threads[t].kind = "import" /\ threads[t].pc = "exp" /\ threads[t].sub = "hook"
  /\ \E s \in {registerExportedProviders(World, threads[t].providers, threads[t].idx + 1)} :
       Apply(t, s)
  /\ UNCHANGED <<resolved, loadedModules, lazyModules, moduleExports, life, plugins, zenject>>

Init ==
  /\ EmptyWorld
  /\ threads = <<>>
  /\ ModuleDecorated
  /\ life = LifeStart(NoListeners, TRUE)
  /\ plugins = NoPlugins
  /\ zenject = NewZenject("D")

Next ==
  \/ \E name \in Roots : LoadModule(name)
  \/ \E t \in DOMAIN threads : ImportsRejected(t)
  \/ \E t \in DOMAIN threads : ImportsDone(t)
  \/ \E t \in DOMAIN threads : ProviderRegistered(t)
  \/ \E t \in DOMAIN threads : FactorySettles(t)
  \/ \E t \in DOMAIN threads : HookRejects(t)
  \/ \E t \in DOMAIN threads : MarkLoaded(t)
  \/ \E t \in DOMAIN threads : ImportLoaded(t)
  \/ \E t \in DOMAIN threads : ExportRegistered(t)
  \/ \E token \in ServiceClasses \cup StringTokens : CallerResolve(token)

Spec == Init /\ [][Next]_vars

----------------------------------------------------------------------------
(* SpecLife: the lifecycle coordinator *)

Running == life.exit = NoExit

LifeOnly == UNCHANGED <<registry, constructed, initLog, factoryCalls, seen, resolved,
                        threads, loadedModules, lazyModules, moduleExports, plugins, zenject>>

ManagedInputs == {Inst("Impl", 0), Inst("Base", 0), Inst("SvcD", 1), Lit("k1")}

ListenerInputs ==
  {<<e, "L1">> : e \in EventSet} \cup
  {<<"shutdown", "L2">>, <<"beforeShutdown", "L3">>, <<"shutdown", "L4">>}

\* bookkeeping: the last of register / unregister called on each instance
Noted(last, instance, op) ==
  [x \in DOMAIN last \cup {instance} |-> IF x = instance THEN op ELSE last[x]]

Register(instance) ==
  /\ Running /\ life.ops < MaxLifeOps
  /\ life' = [register(life, instance) EXCEPT !.ops = @ + 1,
                                              !.lastOp = Noted(@, instance, "register")]
  /\ LifeOnly

Unregister(instance) ==
  /\ Running /\ life.ops < MaxLifeOps
  /\ life' = [unregister(life, instance) EXCEPT !.ops = @ + 1,
                                                !.lastOp = Noted(@, instance, "unregister")]
  /\ LifeOnly

AddEventListener(event, listener) ==
  /\ Running /\ life.ops < MaxLifeOps
  /\ life' = [addEventListener(life, event, listener) EXCEPT !.ops = @ + 1]
  /\ LifeOnly

RemoveEventListener(event, listener) ==
  /\ Running /\ life.ops < MaxLifeOps
  /\ life' = [removeEventListener(life, event, listener) EXCEPT !.ops = @ + 1]
  /\ LifeOnly

\* a shutdown that does not record that it has begun: C26 does not survive it
shutdown_NoFlag(lf, exitCode, handler) ==
  LET c == Len(lf.calls) + 1 IN
  IF AlreadyShuttingDown(lf)
  THEN [lf EXCEPT !.calls = Append(@, [ShutdownRun(exitCode, handler, "returned")
                                         EXCEPT !.after = Completed(lf)])]
  ELSE emitEvent([lf EXCEPT !.calls = Append(@, [ShutdownRun(exitCode, handler, "entered")
                                                   EXCEPT !.after = Completed(lf)])],
                 c, "beforeShutdown")

\* shutdown(exitCode) up to its first await
shutdown(lf, exitCode, handler) ==
  LET c == Len(lf.calls) + 1 IN
  IF AlreadyShuttingDown(lf)
  THEN [lf EXCEPT !.calls = Append(@, [ShutdownRun(exitCode, handler, "returned")
                                         EXCEPT !.after = Completed(lf)])]
  ELSE emitEvent([lf EXCEPT !.isShuttingDown = TRUE,
                            !.calls = Append(@, [ShutdownRun(exitCode, handler, "entered")
                                                   EXCEPT !.after = Completed(lf)])],
                 c, "beforeShutdown")

\* AppLifecycle.shutdown() called by application code
Shutdown ==
  /\ Running /\ Len(life.calls) < MaxShutdownCalls
  /\ life' = shutdown(life, 0, FALSE)
  /\ LifeOnly

\* a process event whose handler calls shutdown(code).catch(() => process.exit(1))
ExitHandler(signal) ==
  /\ Running /\ Len(life.calls) < MaxShutdownCalls
  /\ life.exitHandlersRegistered
  /\ life' = shutdown(life, IF signal \in {"SIGINT", "SIGTERM"} THEN 0 ELSE 1, TRUE)
  /\ LifeOnly

\* a promise returned by a listener or by onDestroy settles
PromiseSettles(c, x) ==
  /\ Running
  /\ x \in life.calls[c].pend
  /\ LET kind == IF x.k = "lit" THEN ListenerKind(x.c) ELSE DestroyKind(x.c) IN
     life' = [life EXCEPT !.calls[c].pend = @ \ {x},
                          !.calls[c].rej = @ \/ (kind = "reject" /\ life.calls[c].pc # "failed"),
                          !.log = Append(@, Entry("settled", x, c))]
  /\ LifeOnly

Awaiting(c) == life.calls[c].pc \in {"beforeShutdown", "shutdown", "destroy", "afterShutdown"}

\* `await Promise.all(...)` rejects: shutdown() rejects; a handler's catch exits
ShutdownRejects(c) ==
  /\ Running /\ Awaiting(c) /\ life.calls[c].rej
  /\ life' = [life EXCEPT !.calls[c].pc = "failed", !.calls[c].rej = FALSE,
                          !.exit = IF life.calls[c].handler THEN 1 ELSE @]
  /\ LifeOnly

\* `await Promise.all(...)` fulfils: shutdown() goes on with its next phase
ShutdownContinues(c) ==
  /\ Running /\ Awaiting(c) /\ ~life.calls[c].rej /\ life.calls[c].pend = {}
  /\ LET pc == life.calls[c].pc IN
     IF pc = "beforeShutdown" THEN
       /\ life' = emitEvent(life, c, "shutdown")
       /\ UNCHANGED <<registry, constructed, initLog, factoryCalls, seen>>
     ELSE IF pc = "shutdown" THEN
       \E got \in {collectInstances(World, registeredTokens(World), 1, <<>>)} :
         \E all \in {addManaged(got.all, life.managedInstances, 1)} :
           /\ SetWorld(got.w)
           /\ life' = destroyAll(life, c, all)
     ELSE IF pc = "destroy" THEN
       /\ life' = emitEvent(life, c, "afterShutdown")
       /\ UNCHANGED <<registry, constructed, initLog, factoryCalls, seen>>
     ELSE
       /\ life' = [life EXCEPT !.calls[c].pc = "done",
                               !.exit = IF life.testEnv THEN @ ELSE life.calls[c].exitCode]
       /\ UNCHANGED <<registry, constructed, initLog, factoryCalls, seen>>
  /\ UNCHANGED <<resolved, threads, loadedModules, lazyModules, moduleExports, plugins, zenject>>

\* the container the application built before shutdown: a resolved singleton with
\* onDestroy, a registered singleton never resolved, a value
LifeWorld ==
  LET w0 == [reg |-> [t \in Tokens |-> NoReg], made |-> [c \in Classes |-> 0],
             inits |-> <<>>, facs |-> [f \in Factories |-> 0],
             seen |-> [c \in Classes |-> <<>>]]
      w1 == registerProvider(w0, Ctor("SvcD")).w
      w2 == safeContainerRegisterSingleton(w1, "TOK", "Impl")
  IN registerProvider(w2, ValueP("VAL", Lit("k1"))).w

\* the same container with an alias of the resolved singleton, resolved as well
LifeWorldAlias ==
  safeContainerResolve(
    registerProvider(LifeWorld, ExistingP("ALIAS", "SvcD")).w, "ALIAS").w

AllThree(l) == [e \in EventSet |-> <<l>>]

InitLife ==
  /\ \E w \in {LifeWorld, LifeWorldAlias} :
       /\ registry = w.reg
       /\ constructed = w.made
       /\ initLog = w.inits
       /\ factoryCalls = w.facs
       /\ seen = w.seen
  /\ resolved = <<>>
  /\ threads = <<>>
  /\ ModuleDecorated
  /\ \E ls \in {NoListeners, AllThree("L1")}, testEnv \in BOOLEAN :
       life = LifeStart(ls, testEnv)
  /\ plugins = NoPlugins
  /\ zenject = NewZenject("D")

NextLife ==
  \/ \E instance \in ManagedInputs : Register(instance)
  \/ \E instance \in ManagedInputs : Unregister(instance)
  \/ \E in \in ListenerInputs : AddEventListener(in[1], in[2])
  \/ \E in \in ListenerInputs : RemoveEventListener(in[1], in[2])
  \/ Shutdown
  \/ \E signal \in {"SIGINT", "SIGTERM", "uncaughtException", "unhandledRejection"} :
       ExitHandler(signal)
  \/ \E c \in DOMAIN life.calls : \E x \in life.calls[c].pend : PromiseSettles(c, x)
  \/ \E c \in DOMAIN life.calls : ShutdownRejects(c)
  \/ \E c \in DOMAIN life.calls : ShutdownContinues(c)

SpecLife == InitLife /\ [][NextLife]_vars

----------------------------------------------------------------------------
(* SpecPlug: PluginManager over the declared modules *)

PluginInputs ==
  {<<"ext", "ldDefault">>, <<"named", "ldNamed">>, <<"both", "ldBoth">>,
   <<"empty", "ldEmpty">>}

PluginLoads == {t \in DOMAIN threads : threads[t].kind = "plugin"}

\* the load() calls that have not settled
PluginInFlight == {t \in PluginLoads : threads[t].pc \notin {"done", "failed"}}

\* one call of PluginManager.load(name); cur is bookkeeping: "noop" for a call
\* that returned at the loadedPlugins check
PluginThread(name, pc, cur, pend, inflight) ==
  [Thread("plugin", name, 0, 0, pc, Abs, 0, cur, pend, <<>>, <<>>)
     EXCEPT !.inflight = inflight]

\* PluginManager.register(name, loader) by application code
PluginRegister(name, loader) ==
  /\ plugins.regs < MaxPluginRegs
  /\ plugins' = [pluginRegister(plugins, name, loader) EXCEPT !.regs = @ + 1]
  /\ UNCHANGED <<registry, constructed, initLog, factoryCalls, seen, resolved, threads,
                 loadedModules, lazyModules, moduleExports, life, zenject>>

\* PluginManager.load(name) up to `await loader()`
PluginLoad(name) ==
  /\ Cardinality(PluginLoads) < MaxPluginLoads
  /\ IF isLoaded(plugins, name) THEN
       /\ threads' = Append(threads, PluginThread(name, "done", "noop", Undef,
                                                  Cardinality(PluginInFlight)))
       /\ UNCHANGED plugins
     ELSE IF ~isRegistered(plugins, name) THEN
       /\ threads' = Append(threads, PluginThread(name, "failed", Abs, Undef,
                                                  Cardinality(PluginInFlight)))
       /\ UNCHANGED plugins
     ELSE
       /\ threads' = Append(threads,
                            [PluginThread(name, "loader", Abs,
                                          LoaderResult(plugins.registry[name]),
                                          Cardinality(PluginInFlight))
                               EXCEPT !.sub = IF plugins.registry[name] \in RejectingLoaders
                                              THEN "loaderfail" ELSE Abs])
       /\ plugins' = [plugins EXCEPT !.invoked[name] = @ + 1]
  /\ UNCHANGED <<registry, constructed, initLog, factoryCalls, seen, resolved,
                 loadedModules, lazyModules, moduleExports, life, zenject>>

\* the loader's promise fulfils: choose the module and call loadModule on it
LoaderSettles(t) ==
  /\ threads[t].kind = "plugin" /\ threads[t].pc = "loader"
  /\ threads[t].sub # "loaderfail"
  /\ \E m \in {moduleToLoad(threads[t].pend)} :
       IF m = Abs
       THEN threads' = [threads EXCEPT ![t].pc = "failed", ![t].pend = Undef]
       ELSE threads' =
              [([threads EXCEPT ![t].pc = "module", ![t].pend = Undef,
                                ![t].child = Len(threads) + 1] \o
                  IF lazyModules[m].defined
                  THEN Invoke(m, Len(threads), 0)
                  ELSE <<InitThread(m, 0, "done", <<>>, <<>>)>>)
               EXCEPT ![Len(threads) + 1].inflight = Cardinality(InFlight)]
  /\ UNCHANGED <<registry, constructed, initLog, factoryCalls, seen, resolved,
                 loadedModules, lazyModules, moduleExports, life, plugins, zenject>>

\* the loader's promise rejects, and load() with it
LoaderRejects(t) ==
  /\ threads[t].kind = "plugin" /\ threads[t].pc = "loader"
  /\ threads[t].sub = "loaderfail"
  /\ threads' = [threads EXCEPT ![t].pc = "failed", ![t].pend = Undef]
  /\ UNCHANGED <<registry, constructed, initLog, factoryCalls, seen, resolved,
                 loadedModules, lazyModules, moduleExports, life, plugins, zenject>>

\* a load() that records the plugin whatever became of loadModule: C38 does not
\* survive it
PluginModuleLoaded_Always(t) ==
  /\ threads[t].kind = "plugin" /\ threads[t].pc = "module"
  /\ threads[threads[t].child].pc \in {"done", "failed"}
  /\ threads' = [threads EXCEPT ![t].pc = IF threads[threads[t].child].pc = "failed"
                                          THEN "failed" ELSE "done"]
  /\ plugins' = markLoaded(plugins, threads[t].mod)
  /\ UNCHANGED <<registry, constructed, initLog, factoryCalls, seen, resolved,
                 loadedModules, lazyModules, moduleExports, life, zenject>>

\* `await loadModule(moduleToLoad)` settles: record the plugin, or reject
PluginModuleLoaded(t) ==
  /\ threads[t].kind = "plugin" /\ threads[t].pc = "module"
  /\ threads[threads[t].child].pc \in {"done", "failed"}
  /\ IF threads[threads[t].child].pc = "failed"
     THEN /\ threads' = [threads EXCEPT ![t].pc = "failed"]
          /\ UNCHANGED plugins
     ELSE /\ threads' = [threads EXCEPT ![t].pc = "done"]
          /\ plugins' = markLoaded(plugins, threads[t].mod)
  /\ UNCHANGED <<registry, constructed, initLog, factoryCalls, seen, resolved,
                 loadedModules, lazyModules, moduleExports, life, zenject>>

InitPlug ==
  /\ EmptyWorld
  /\ threads = <<>>
  /\ ModuleDecorated
  /\ life = LifeStart(NoListeners, TRUE)
  /\ plugins = NoPlugins
  /\ zenject = NewZenject("D")

NextPlug ==
  \/ \E in \in PluginInputs : PluginRegister(in[1], in[2])
  \/ \E name \in PluginNames : PluginLoad(name)
  \/ \E t \in DOMAIN threads : LoaderSettles(t)
  \/ \E t \in DOMAIN threads : PluginModuleLoaded(t)
  \/ \E t \in DOMAIN threads : ImportsDone(t)
  \/ \E t \in DOMAIN threads : ProviderRegistered(t)
  \/ \E t \in DOMAIN threads : MarkLoaded(t)

SpecPlug == InitPlug /\ [][NextPlug]_vars

\* plugins whose loader or whose module fails
FailInputs ==
  {<<"ext", "ldReject">>, <<"ext", "ldBad">>, <<"ext", "ldDefault">>,
   <<"empty", "ldEmpty">>}

NextPlugFail ==
  \/ \E in \in FailInputs : PluginRegister(in[1], in[2])
  \/ \E name \in {"ext", "empty", "ghost"} : PluginLoad(name)
  \/ \E t \in DOMAIN threads : LoaderSettles(t)
  \/ \E t \in DOMAIN threads : LoaderRejects(t)
  \/ \E t \in DOMAIN threads : PluginModuleLoaded(t)
  \/ \E t \in DOMAIN threads : ImportsDone(t)
  \/ \E t \in DOMAIN threads : ProviderRegistered(t)
  \/ \E t \in DOMAIN threads : HookRejects(t)
  \/ \E t \in DOMAIN threads : MarkLoaded(t)

SpecPlugFail == InitPlug /\ [][NextPlugFail]_vars

----------------------------------------------------------------------------
(* SpecBoot: a Zenject application *)

BootRoots == {"P", "G"}
AfterReady == {"none", "fulfils", "rejects"}

BootCalls == {t \in DOMAIN threads : threads[t].kind = "boot"}

\* one call of bootstrap(afterReady); cur holds the afterReady callback
BootThread(pc, child, afterReady) ==
  Thread("boot", zenject.root, 0, child, pc, Abs, 0, afterReady, Undef, <<>>, <<>>)

\* app.bootstrap(afterReady) up to `await loadModule(this.#root)`
Bootstrap(afterReady) ==
  /\ Cardinality(BootCalls) < MaxBootCalls
  /\ IF zenject.ready
     THEN threads' = Append(threads, BootThread("done", 0, afterReady))
     ELSE threads' =
            [(Append(threads, BootThread("loading", Len(threads) + 2, afterReady)) \o
                IF lazyModules[zenject.root].defined
                THEN Invoke(zenject.root, Len(threads) + 1, 0)
                ELSE <<InitThread(zenject.root, 0, "done", <<>>, <<>>)>>)
             EXCEPT ![Len(threads) + 2].inflight = Cardinality(InFlight)]
  /\ UNCHANGED <<registry, constructed, initLog, factoryCalls, seen, resolved,
                 loadedModules, lazyModules, moduleExports, life, plugins, zenject>>

\* `await loadModule(this.#root)` settles: set #ready and call afterReady, or reject
BootLoaded(t) ==
  /\ threads[t].kind = "boot" /\ threads[t].pc = "loading"
  /\ threads[threads[t].child].pc \in {"done", "failed"}
  /\ IF threads[threads[t].child].pc = "failed"
     THEN /\ threads' = [threads EXCEPT ![t].pc = "failed"]
          /\ UNCHANGED zenject
     ELSE /\ threads' = [threads EXCEPT ![t].pc = IF threads[t].cur = "none" THEN "done"
                                                  ELSE "afterReady"]
          /\ zenject' = [zenject EXCEPT !.ready = TRUE]
  /\ UNCHANGED <<registry, constructed, initLog, factoryCalls, seen, resolved,
                 loadedModules, lazyModules, moduleExports, life, plugins>>

\* `await afterReady()` settles
AfterReadySettles(t) ==
  /\ threads[t].kind = "boot" /\ threads[t].pc = "afterReady"
  /\ threads' = [threads EXCEPT ![t].pc = IF threads[t].cur = "rejects" THEN "failed"
                                          ELSE "done"]
  /\ UNCHANGED <<registry, constructed, initLog, factoryCalls, seen, resolved,
                 loadedModules, lazyModules, moduleExports, life, plugins, zenject>>

\* app.resolve(token)
ZenjectResolve(token) ==
  /\ Len(zenject.reads) < MaxReads
  /\ IF ~isReady(zenject)
     THEN /\ zenject' = [zenject EXCEPT !.reads = Append(@, <<"resolve", FALSE>>)]
          /\ UNCHANGED <<registry, constructed, initLog, factoryCalls, seen>>
     ELSE \E r \in {safeContainerResolve(World, token)} :
            /\ SetWorld(r.w)
            /\ zenject' = [zenject EXCEPT !.reads = Append(@, <<"resolve", r.ok>>)]
  /\ UNCHANGED <<resolved, threads, loadedModules, lazyModules, moduleExports, life,
                 plugins>>

\* app.container
ZenjectContainer ==
  /\ Len(zenject.reads) < MaxReads
  /\ zenject' = [zenject EXCEPT !.reads = Append(@, <<"container", isReady(zenject)>>)]
  /\ UNCHANGED <<registry, constructed, initLog, factoryCalls, seen, resolved, threads,
                 loadedModules, lazyModules, moduleExports, life, plugins>>

InitBoot ==
  /\ EmptyWorld
  /\ threads = <<>>
  /\ ModuleDecorated
  /\ life = LifeStart(NoListeners, TRUE)
  /\ plugins = NoPlugins
  /\ \E root \in BootRoots : zenject = NewZenject(root)

NextBoot ==
  \/ \E afterReady \in AfterReady : Bootstrap(afterReady)
  \/ \E t \in DOMAIN threads : BootLoaded(t)
  \/ \E t \in DOMAIN threads : AfterReadySettles(t)
  \/ \E token \in {"SvcD", "VAL"} : ZenjectResolve(token)
  \/ ZenjectContainer
  \/ \E t \in DOMAIN threads : ImportsDone(t)
  \/ \E t \in DOMAIN threads : ProviderRegistered(t)
  \/ \E t \in DOMAIN threads : HookRejects(t)
  \/ \E t \in DOMAIN threads : MarkLoaded(t)

SpecBoot == InitBoot /\ [][NextBoot]_vars

----------------------------------------------------------------------------
(* SpecDyn: a module given as a dynamic descriptor or declared statically *)

\* the descriptor with the options of the static declaration of `name`
DynamicOf(name) ==
  DynamicModule(name, Declared(name).imports, Declared(name).providers,
                Declared(name).exports)

DynInputs ==
  {DynamicOf("Dy"), DynamicModule("Dy", <<>>, <<ValueP("VAL", Lit("k1"))>>, <<>>)}

\* processDynamicModule(dm) called by application code
ProcessDynamicModule(dm) ==
  /\ \E r \in {processDynamicModule(lazyModules, moduleExports, dm)} :
       /\ lazyModules' = r.lazy
       /\ moduleExports' = r.exports
  /\ UNCHANGED <<registry, constructed, initLog, factoryCalls, seen, resolved, threads,
                 loadedModules, life, plugins, zenject>>

\* loadModule(dm) for a dynamic descriptor
LoadDynamic(dm) ==
  /\ Cardinality(TopLevel) < MaxLoadCalls
  /\ \E r \in {processDynamicModule(lazyModules, moduleExports, dm)} :
       /\ lazyModules' = r.lazy
       /\ moduleExports' = r.exports
  /\ threads' = [(threads \o InvokeDynamic(dm, Len(threads), 0))
                 EXCEPT ![Len(threads) + 1].inflight = Cardinality(InFlight)]
  /\ UNCHANGED <<registry, constructed, initLog, factoryCalls, seen, resolved,
                 loadedModules, life, plugins, zenject>>

\* the program either declares Dy with @Module or leaves it to descriptors
InitDyn ==
  /\ EmptyWorld
  /\ threads = <<>>
  /\ loadedModules = {}
  /\ \E static \in BOOLEAN :
       /\ lazyModules = [m \in ModuleNames |->
            IF m = "Dy" /\ ~static
            THEN [defined |-> FALSE, by |-> Abs, imports |-> <<>>, providers |-> <<>>]
            ELSE [defined |-> TRUE, by |-> "Module", imports |-> Declared(m).imports,
                  providers |-> Declared(m).providers]]
       /\ moduleExports = [m \in ModuleNames |->
            IF m = "Dy" /\ ~static THEN <<>> ELSE Declared(m).exports]
  /\ life = LifeStart(NoListeners, TRUE)
  /\ plugins = NoPlugins
  /\ zenject = NewZenject("D")

NextDyn ==
  \/ \E dm \in DynInputs : ProcessDynamicModule(dm)
  \/ \E dm \in DynInputs : LoadDynamic(dm)
  \/ \E name \in {"Dy", "D"} : LoadModule(name)
  \/ \E t \in DOMAIN threads : ImportsDone(t)
  \/ \E t \in DOMAIN threads : ProviderRegistered(t)
  \/ \E t \in DOMAIN threads : MarkLoaded(t)
  \/ \E t \in DOMAIN threads : ImportLoaded(t)

SpecDyn == InitDyn /\ [][NextDyn]_vars

----------------------------------------------------------------------------
(* SpecVis: a chain of imports, H importing F importing E *)

VisRoots == {"H", "F"}

NextVis ==
  \/ \E name \in VisRoots : LoadModule(name)
  \/ \E t \in DOMAIN threads : ImportsDone(t)
  \/ \E t \in DOMAIN threads : ProviderRegistered(t)
  \/ \E t \in DOMAIN threads : FactorySettles(t)
  \/ \E t \in DOMAIN threads : MarkLoaded(t)
  \/ \E t \in DOMAIN threads : ImportLoaded(t)
  \/ \E t \in DOMAIN threads : ExportRegistered(t)
  \/ \E token \in {"VAL", "Base", "TOK", "SvcD"} : CallerResolve(token)

SpecVis == Init /\ [][NextVis]_vars

----------------------------------------------------------------------------
(* SpecMissing: module references that were never declared *)

\* the classes the program uses as module references without decorating them
MissingNames == {"D", "Dy"}

MissingRoots == {"B", "D", "Dy"}

\* the program decorates every module class but those of MissingNames; its
\* application object is built on a decorated or on an undecorated root
InitMissing ==
  /\ EmptyWorld
  /\ threads = <<>>
  /\ loadedModules = {}
  /\ lazyModules = [m \in ModuleNames |->
       IF m \in MissingNames
       THEN [defined |-> FALSE, by |-> Abs, imports |-> <<>>, providers |-> <<>>]
       ELSE [defined |-> TRUE, by |-> "Module", imports |-> Declared(m).imports,
             providers |-> Declared(m).providers]]
  /\ moduleExports = [m \in ModuleNames |->
       IF m \in MissingNames THEN <<>> ELSE Declared(m).exports]
  /\ life = LifeStart(NoListeners, TRUE)
  /\ plugins = NoPlugins
  /\ \E root \in {"Dy", "B"} : zenject = NewZenject(root)

NextMissing ==
  \/ \E name \in MissingRoots : LoadModule(name)
  \/ \E dm \in {DynamicOf("Dy")} : ProcessDynamicModule(dm)
  \/ \E afterReady \in AfterReady : Bootstrap(afterReady)
  \/ \E t \in DOMAIN threads : BootLoaded(t)
  \/ \E t \in DOMAIN threads : AfterReadySettles(t)
  \/ \E t \in DOMAIN threads : ImportsDone(t)
  \/ \E t \in DOMAIN threads : ProviderRegistered(t)
  \/ \E t \in DOMAIN threads : MarkLoaded(t)

SpecMissing == InitMissing /\ [][NextMissing]_vars

----------------------------------------------------------------------------
(* SpecRep: a second descriptor for a module name, and a module that imports it *)

\* two descriptors of Dy: the one of its declaration, and one with an exported
\* and a non-exported provider
RepInputs ==
  {DynamicOf("Dy"),
   DynamicModule("Dy", <<>>, <<ValueP("VAL", Lit("k1")), ClassP("TOK", "Impl", TRUE)>>,
                 <<ClassP("TOK", "Impl", TRUE)>>)}

NextRep ==
  \/ \E dm \in RepInputs : ProcessDynamicModule(dm)
  \/ \E dm \in RepInputs : LoadDynamic(dm)
  \/ \E name \in {"K"} : LoadModule(name)
  \/ \E t \in DOMAIN threads : ImportsDone(t)
  \/ \E t \in DOMAIN threads : ProviderRegistered(t)
  \/ \E t \in DOMAIN threads : MarkLoaded(t)
  \/ \E t \in DOMAIN threads : ImportLoaded(t)
  \/ \E t \in DOMAIN threads : ExportRegistered(t)

SpecRep == InitDyn /\ [][NextRep]_vars

----------------------------------------------------------------------------
(* SpecGraph: loadModule over further module graphs *)

GraphRoots == {"T", "U", "V", "W", "Y", "App"}

NextGraph ==
  \/ \E name \in GraphRoots : LoadModule(name)
  \/ \E t \in DOMAIN threads : ImportsRejected(t)
  \/ \E t \in DOMAIN threads : ImportsDone(t)
  \/ \E t \in DOMAIN threads : ProviderRegistered(t)
  \/ \E t \in DOMAIN threads : MarkLoaded(t)
  \/ \E t \in DOMAIN threads : ImportLoaded(t)
  \/ \E token \in {"TOK", "X"} : CallerResolve(token)

SpecGraph == Init /\ [][NextGraph]_vars

\* the continuations the event loop runs once the promise they wait for settles
GraphSteps ==
  \E t \in DOMAIN threads :
    \/ ImportsRejected(t)
    \/ ImportsDone(t)
    \/ ProviderRegistered(t)
    \/ MarkLoaded(t)
    \/ ImportLoaded(t)

\* SpecGraph with the event loop running every continuation that is ready
SpecGraphLive == SpecGraph /\ WF_vars(GraphSteps)

----------------------------------------------------------------------------
(* Properties of module loading (Spec) *)

\* number of onInit invocations on instances of class cls
InitCount(cls) ==
  Cardinality({i \in DOMAIN initLog : initLog[i].k = "inst" /\ initLog[i].c = cls})

\* every loadModule call so far was made after the earlier ones had settled
SequentialLoads == \A t \in TopLevel : threads[t].inflight = 0

\* loadModule(M) was called, completed, and was called again and completed;
\* nothing else was loaded
LoadedTwice(M) ==
  /\ Cardinality(TopLevel) >= 2
  /\ SequentialLoads
  /\ \A t \in TopLevel : threads[t].mod = M /\ threads[t].pc = "done"

\* C1: for every module M, loadModule(M) followed, after its completion, by
\* loadModule(M) leaves exactly one singleton instance of M in the container and
\* M's onInit, when M has one, has been invoked exactly once in total.
C1_IdempotentLoad ==
  \A M \in Roots :
    LoadedTwice(M) =>
      /\ constructed[M] = 1
      /\ registry[M].single /\ registry[M].inst = Inst(M, 1)
      /\ InitCount(M) = IF M \in InitClasses THEN 1 ELSE 0

\* the diamond root was loaded twice in sequence and initialised once
C1_Witness == LoadedTwice("A") /\ InitCount("A") = 1 /\ "A" \in loadedModules

\* C2: one loadModule call initialises every module at most once, also a module
\* reachable through two sibling imports: its onInit is invoked at most once.
C2_InitAtMostOnce ==
  Cardinality(TopLevel) = 1 => \A M \in ModuleNames : InitCount(M) <= 1

\* the tokens module E both provides and exports, with the instance E's load makes
ExportedByE == {"SvcD", "TOK", "AFAC"}
MadeByE(token) ==
  CASE token = "SvcD" -> Inst("SvcD", 1)
    [] token = "TOK" -> Inst("Impl", 1)
    [] token = "AFAC" -> Obj("mkAsync", 1)

\* F, which imports E, has been loaded; loads did not overlap
ImporterLoaded ==
  /\ SequentialLoads
  /\ \E t \in TopLevel : threads[t].mod = "F" /\ threads[t].pc = "done"

\* C3: export propagation preserves singleton identity: once the importer F of E is
\* loaded, every resolution of a provider E exports yields the instance E's load
\* constructed, and nothing exported was constructed a second time.
C3_ExportIdentity ==
  ImporterLoaded =>
    /\ constructed["SvcD"] = 1 /\ constructed["Impl"] = 1
    /\ factoryCalls["mkAsync"] = 1
    /\ \A token \in ExportedByE :
         /\ safeContainerResolve(World, token).ok
         /\ safeContainerResolve(World, token).val = MadeByE(token)
         /\ safeContainerResolve(World, token).w.made = constructed
    /\ \A i \in DOMAIN resolved :
         resolved[i][1] \in ExportedByE =>
           resolved[i][2] /\ resolved[i][3] = MadeByE(resolved[i][1])

\* F is loaded, the export was re-registered by the propagation and a caller
\* resolved it
C3_Witness ==
  /\ ImporterLoaded
  /\ registry["TOK"].kind = "value"
  /\ \E i \in DOMAIN resolved : resolved[i] = <<"TOK", TRUE, Inst("Impl", 1)>>

\* C4: with Config exporting the bare token "API_KEY", loadModule(App) does not
\* fail, and once it has completed "API_KEY" resolves to "k1" and Service was
\* constructed with "k1" and initialised.
C4_BareTokenExport ==
  \A t \in TopLevel :
    threads[t].mod = "App" =>
      /\ threads[t].pc # "failed"
      /\ threads[t].pc = "done" =>
           /\ safeContainerResolve(World, "API_KEY").val = Lit("k1")
           /\ seen["Service"] = <<Lit("k1")>>
           /\ InitCount("Service") = 1

\* an import closure that has begun to propagate the exports of its module
Propagating(j) ==
  threads[j].kind = "import" /\ threads[j].child # 0 /\ threads[j].pc \in {"exp", "done"}

\* a run of an initializer that has begun to register its own providers
Registering(t) ==
  threads[t].kind = "init" /\ (threads[t].pc \in {"prov", "self"} \/ threads[t].idx >= 1)

\* a run of an initializer that has called the hook of the module instance
HookCalled(t) ==
  threads[t].kind = "init" /\ threads[t].sub \in {"hook", "hookfail"}
  /\ threads[t].pc \in {"self", "done", "failed"} /\ threads[t].idx > Len(threads[t].providers)

\* the import closures of run t, as the threads record them
ImportsOf(t) ==
  {j \in DOMAIN threads : threads[j].kind = "import" /\ threads[j].parent = t}

\* C24: phase ordering within one run of the initializer of M: the exports of
\* an import are propagated only after that import's own load has settled; M's
\* providers are registered only after every import has loaded and its exports
\* are propagated; M's hook is called only after all of M's providers are
\* registered; M enters loadedModules only when its hook has completed.
C24_PhaseOrder ==
  /\ [](\A j \in DOMAIN threads :
          Propagating(j) =>
            /\ threads[threads[j].child].pc = "done"
            /\ threads[j].mod \in loadedModules)
  /\ [](\A t \in DOMAIN threads :
          Registering(t) =>
            /\ Cardinality(ImportsOf(t)) = Len(threads[t].imports)
            /\ \A j \in ImportsOf(t) :
                 /\ threads[j].pc = "done"
                 /\ threads[j].idx > Len(moduleExports[threads[j].mod])
                 /\ threads[j].mod \in loadedModules)
  /\ [](\A t \in DOMAIN threads :
          HookCalled(t) =>
            \A i \in DOMAIN threads[t].providers :
              registry[threads[t].providers[i].provide].kind # "none")
  /\ [][\A m \in loadedModules' \ loadedModules :
          \E t \in DOMAIN threads :
            /\ threads[t].kind = "init" /\ threads[t].mod = m
            /\ threads[t].pc = "self" /\ threads[t].sub = "hook"
            /\ threads'[t].pc = "done"
            /\ m \in InitClasses => \E e \in DOMAIN initLog : initLog[e] = Inst(m, 1)]_vars

\* F is loaded: its import E was loaded, E's exports were propagated, F's
\* provider is registered and F's hook was called
C24_Witness ==
  \E t \in DOMAIN threads :
    /\ threads[t].kind = "init" /\ threads[t].mod = "F"
    /\ threads[t].pc = "done" /\ threads[t].sub = "hook"
    /\ \E j \in ImportsOf(t) : threads[j].mod = "E" /\ threads[j].idx > 1
    /\ registry["VAL"].kind = "value"
    /\ "F" \in loadedModules

\* the loadModule(M) calls whose run of M's initializer has passed the
\* loadedModules check and has not yet marked M loaded or failed
PastCheck(M) ==
  {t \in TopLevel : threads[t].mod = M /\ threads[t].pc \notin {"done", "failed"}}

\* C25: two loadModule(M) calls never overlap: no state has two runs of M's
\* initializer past the loadedModules check with M not yet marked loaded, and
\* once the calls have returned M's onInit has been invoked exactly once.
C25_LoadsNeverOverlap ==
  \A M \in Roots :
    /\ Cardinality(PastCheck(M)) <= 1
    /\ (/\ M \in InitClasses
        /\ TopLevel # {}
        /\ \A t \in TopLevel : threads[t].mod = M /\ threads[t].pc = "done")
       => InitCount(M) = 1

\* run t is inside `await registerProvider(providers[idx])`: the provider's
\* hook, if it has one, was invoked and has not settled
InRegisterProvider(t) == threads[t].kind = "init" /\ threads[t].pc = "prov"

\* C29: the providers of one module are registered in declaration order and
\* registerProvider returns only when the provider's onInit has settled: while
\* the hook of provider k is pending every earlier provider of the module is
\* registered and the registration of no later provider of the module has begun.
C29_DeclarationOrder ==
  \A t \in DOMAIN threads :
    InRegisterProvider(t) =>
      /\ \A j \in 1..(threads[t].idx - 1) :
           registry[threads[t].providers[j].provide].kind # "none"
      /\ \A u \in DOMAIN threads :
           (threads[u].kind = "init" /\ threads[u].mod = threads[t].mod)
             => threads[u].idx <= threads[t].idx


\* the onInit of an instance of cls, if cls has one, was invoked and fulfilled
HookCompleted(cls) ==
  cls \in InitClasses =>
    /\ \E e \in DOMAIN initLog : initLog[e].k = "inst" /\ initLog[e].c = cls
    /\ cls \notin FailingInit

\* the class a constructor or class descriptor has the container construct
ProvidedClass(p) == IF p.typ = "function" THEN p.provide ELSE p.useClass

\* C33: a module in loadedModules is fully initialised: the onInit of its
\* instance and of every constructor or class provider it declares has completed
\* successfully, also when an earlier loadModule of it failed on such a hook and
\* loadModule was called again.
C33_LoadedImpliesInitialised ==
  \A M \in loadedModules :
    /\ HookCompleted(M)
    /\ \A i \in DOMAIN lazyModules[M].providers :
         LET p == lazyModules[M].providers[i] IN
         (isConstructorProvider(p) \/ isClassProvider(p)) => HookCompleted(ProvidedClass(p))

----------------------------------------------------------------------------
(* Properties of registerProvider (SpecReg) *)

\* the tags a descriptor record carries
TagsOf(p) ==
  (IF p.useClass # Abs THEN {"useClass"} ELSE {}) \cup
  (IF p.hasValue THEN {"useValue"} ELSE {}) \cup
  (IF p.useFactory # Abs THEN {"useFactory"} ELSE {}) \cup
  (IF p.useExisting # Abs THEN {"useExisting"} ELSE {})

\* one of the five shapes: a bare constructor, or a record with exactly one tag
ExactlyOneTag(p) == p.typ = "function" \/ (p.typ = "object" /\ Cardinality(TagsOf(p)) = 1)

\* what resolving the token of a registered descriptor has to give
ResolvesAsDeclared(p) ==
  LET r == safeContainerResolve(World, p.provide) IN
  IF p.typ = "function" THEN r.ok /\ r.val.k = "inst" /\ r.val.c = p.provide
  ELSE IF p.useClass # Abs THEN r.ok /\ r.val.k = "inst" /\ r.val.c = p.useClass
  ELSE IF p.hasValue THEN r.ok /\ r.val = p.useValue
  ELSE IF p.useFactory # Abs THEN r.ok /\ r.val.k = "obj" /\ r.val.c = p.useFactory
  ELSE LET a == safeContainerResolve(World, p.useExisting) IN
       r.ok = a.ok /\ r.val = a.val

\* C5: registerProvider of a descriptor of one of the five shapes whose token is
\* not registered (the first call on an empty container) does not fail, and when
\* it has completed the token is registered and resolves to the instance of the
\* class, the stored value, the factory's result or the aliased token's value.
C5_FiveShapesResolvable ==
  (threads # <<>> /\ ExactlyOneTag(threads[1].cur) /\ threads[1].cur.deps = <<>>) =>
    /\ threads[1].pc # "failed"
    /\ threads[1].pc = "done" =>
         /\ safeContainerIsRegistered(World, threads[1].cur.provide)
         /\ ResolvesAsDeclared(threads[1].cur)

\* C6: registerProvider rejects exactly the descriptors that do not carry exactly
\* one tag.
C6_DispatchExclusive ==
  \A t \in DOMAIN threads :
    threads[t].cur.deps = <<>> =>
      (threads[t].pc = "failed" <=> ~ExactlyOneTag(threads[t].cur))

\* the registerProvider calls made with a descriptor of factory f
FactoryRegistrations(f) == {t \in DOMAIN threads : threads[t].cur.useFactory = f}

\* C7: after the one registerProvider call of a factory provider has completed,
\* the factory has been invoked exactly once, its result is what the token is
\* registered with, and every resolution of the token, made or still to be made,
\* returns that result without invoking the factory again.
C7_FactoryOnce ==
  \A t \in DOMAIN threads :
    LET p == threads[t].cur IN
    (isFactoryProvider(p) /\ ~isClassProvider(p) /\ ~isValueProvider(p)
       /\ threads[t].pc = "done" /\ FactoryRegistrations(p.useFactory) = {t}) =>
      /\ factoryCalls[p.useFactory] = 1
      /\ registry[p.provide].kind = "value"
      /\ registry[p.provide].val = Obj(p.useFactory, 1)
      /\ safeContainerResolve(World, p.provide).val = Obj(p.useFactory, 1)
      /\ safeContainerResolve(World, p.provide).w.facs = factoryCalls
      /\ \A i \in DOMAIN resolved :
           resolved[i][1] = p.provide => resolved[i] = <<p.provide, TRUE, Obj(p.useFactory, 1)>>

\* the async factory provider was registered and its token resolved afterwards
C7_Witness ==
  /\ \E t \in DOMAIN threads :
       /\ threads[t].cur = FactoryP("AFAC", "mkAsync", <<"VAL">>)
       /\ threads[t].pc = "done"
  /\ resolved = << <<"AFAC", TRUE, Obj("mkAsync", 1)>> >>

\* number of onInit invocations on results of factory f
FactoryInitCount(f) ==
  Cardinality({i \in DOMAIN initLog : initLog[i].k = "obj" /\ initLog[i].c = f})

\* C32: whatever the interleaving of the registerProvider calls made with
\* factory descriptors of one token, the factory is invoked at most once and
\* the onInit of its result runs at most once.
C32_FactoryAtMostOnce ==
  \A f \in Factories : factoryCalls[f] <= 1 /\ FactoryInitCount(f) <= 1

\* this step is a registerProvider(p) call
CallOf(p) ==
  /\ Len(threads') = Len(threads) + 1
  /\ threads'[Len(threads')].kind = "reg"
  /\ threads'[Len(threads')].cur = p

\* C8: registerProvider with a descriptor of one of the five shapes whose token is
\* already registered raises no error and changes nothing: no registration, no
\* construction, no factory invocation, no onInit.
C8_RegisteredTokenNoOp ==
  [][\A p \in RegInputs :
       (ExactlyOneTag(p) /\ safeContainerIsRegistered(World, p.provide) /\ CallOf(p)) =>
         /\ threads'[Len(threads')].pc # "failed"
         /\ registry' = registry
         /\ constructed' = constructed
         /\ factoryCalls' = factoryCalls
         /\ initLog' = initLog]_vars

\* the loadModule calls that have settled, either way
Settled == {t \in TopLevel : threads[t].pc \in {"done", "failed"}}

\* C13: a failing onInit hook does not abort sibling registration: once
\* loadModule(M) has settled, every provider M declares after a provider whose
\* onInit was invoked and failed is registered all the same.
C13_HookFailureIsolated ==
  \A t \in Settled :
    LET ps == Declared(threads[t].mod).providers IN
    \A i, j \in DOMAIN ps :
      (i < j /\ ps[i].typ = "function" /\ ps[i].provide \in FailingInit
             /\ InitCount(ps[i].provide) > 0)
        => safeContainerIsRegistered(World, ps[j].provide)

\* what each token is registered with, leaving out the instances the
\* container has cached
Registrations ==
  [t \in Tokens |-> [kind |-> registry[t].kind, cls |-> registry[t].cls,
                     val |-> registry[t].val, tok |-> registry[t].tok,
                     single |-> registry[t].single]]

\* the call made in this step has failed or waits for a promise that rejects
CallFails ==
  \/ threads'[Len(threads')].pc = "failed"
  \/ threads'[Len(threads')].sub = "factoryfail"

\* C34: a registerProvider call of a factory descriptor that fails, because a
\* dependency cannot be resolved or because the factory throws or its promise
\* rejects, registers nothing: the registrations are as before, the token is
\* unregistered unless another call registered it, and a later registerProvider
\* for the token, its dependencies resolvable, invokes the factory again.
C34_FailedFactoryLeavesNoTrace ==
  /\ [][\A p \in FacInputs :
          (isFactoryProvider(p) /\ CallOf(p) /\ CallFails) => Registrations' = Registrations]_vars
  /\ [][\A t \in DOMAIN threads :
          (threads[t].pc # "failed" /\ threads'[t].pc = "failed") => registry' = registry]_vars
  /\ [](\A p \in FacInputs :
          (/\ isFactoryProvider(p)
           /\ \E t \in DOMAIN threads : threads[t].cur.provide = p.provide
           /\ \A t \in DOMAIN threads :
                threads[t].cur.provide = p.provide => threads[t].pc = "failed")
            => ~safeContainerIsRegistered(World, p.provide))
  /\ [][\A p \in FacInputs :
          (/\ isFactoryProvider(p) /\ CallOf(p)
           /\ ~safeContainerIsRegistered(World, p.provide)
           /\ ResolveAll(World, p.deps, MaxDepth).ok)
            => factoryCalls'[p.useFactory] = factoryCalls[p.useFactory] + 1]_vars

\* three calls with a factory whose promise rejects: each invoked the factory,
\* two have failed, and the token is not registered
C34_Witness ==
  /\ Len(threads) = 3
  /\ \A t \in DOMAIN threads : threads[t].cur = FactoryP("FAC", "mkReject", <<>>)
  /\ threads[1].pc = "failed" /\ threads[2].pc = "failed"
  /\ factoryCalls["mkReject"] = 3
  /\ ~safeContainerIsRegistered(World, "FAC")

----------------------------------------------------------------------------
(* Properties of shutdown (SpecLife) *)

\* the positions of the log at which event ev was delivered to a listener
Delivered(ev) == {i \in DOMAIN life.log : life.log[i].ev = ev}

Hooked == {i \in DOMAIN life.log : life.log[i].ev = "onDestroy"}

\* the shutdown calls that passed the isShuttingDown guard
Executions == {c \in DOMAIN life.calls : life.calls[c].pc # "returned"}

\* C9: a shutdown() call that passed the guard delivers beforeShutdown, shutdown
\* and afterShutdown in this order, each once per listener; onDestroy hooks are
\* invoked after the shutdown event and have settled before afterShutdown; with
\* listeners on all three events the call does not stop before it has delivered
\* afterShutdown.
C9_EventOrder ==
  /\ \A i \in Delivered("shutdown") : \A j \in Delivered("beforeShutdown") : j < i
  /\ \A i \in Delivered("afterShutdown") :
       /\ \A j \in Delivered("shutdown") : j < i
       /\ \A j \in Hooked :
            /\ j < i
            /\ \E k \in DOMAIN life.log :
                 k < i /\ life.log[k] = Entry("settled", life.log[j].x, life.log[j].call)
  /\ \A i \in Hooked : \A j \in Delivered("shutdown") : j < i
  /\ \A ev \in EventSet : \A i, j \in Delivered(ev) :
       life.log[i].x = life.log[j].x => i = j
  /\ (\A ev \in EventSet : life.listeners[ev] # <<>>) =>
       \A c \in Executions : life.calls[c].pc # "failed"

\* C10: however many shutdown() calls are made, only the first one runs the
\* sequence: every later call returns at the guard, every event delivery and hook
\* invocation belongs to the first call, and no listener gets an event twice.
C10_ShutdownOnce ==
  /\ Executions \subseteq {1}
  /\ \A i \in DOMAIN life.log : life.log[i].call = 1
  /\ \A ev \in EventSet : \A i, j \in Delivered(ev) :
       life.log[i].x = life.log[j].x => i = j

\* a second call, made from an exit handler while the first was in progress,
\* returned at the guard; the first went on to afterShutdown
C10_Witness ==
  /\ Len(life.calls) = 2
  /\ life.calls[2].pc = "returned" /\ life.calls[2].handler
  /\ life.calls[1].pc = "afterShutdown"
  /\ Delivered("afterShutdown") # {}

\* C11: a shutdown() call that passed the guard runs to completion whatever fails
\* on the way: no listener and no onDestroy hook, throwing or rejecting, makes the
\* call fail towards its caller or end before afterShutdown.
C11_RunsToCompletion == \A c \in Executions : life.calls[c].pc # "failed"

\* run c enters phase pc in this step
Entered(c, pc) ==
  /\ c \in DOMAIN life'.calls /\ life'.calls[c].pc = pc
  /\ IF c \in DOMAIN life.calls THEN life.calls[c].pc # pc ELSE TRUE

\* entry e is written to the log in this step
Logged(e) ==
  \E k \in (Len(life.log) + 1)..Len(life'.log) : life'.log[k] = e

\* the instances a shutdown collects in the current state
Collected ==
  addManaged(collectInstances(World, registeredTokens(World), 1, <<>>).all,
             life.managedInstances, 1)

\* C12: within one batch every sibling is invoked: when an event is emitted every
\* listener registered for it is called, and when the teardown phase starts the
\* onDestroy hook of every collected instance is called, also when another
\* listener or hook of the batch throws or rejects.
C12_SiblingIsolation ==
  [][\A c \in DOMAIN life'.calls :
       /\ \A ev \in EventSet :
            Entered(c, ev) =>
              \A i \in DOMAIN life.listeners[ev] :
                Logged(Entry(ev, Lit(life.listeners[ev][i]), c))
       /\ Entered(c, "destroy") =>
            \A i \in DOMAIN Collected : Logged(Entry("onDestroy", Collected[i], c))]_vars

\* beforeShutdown went to a listener that throws and then to the one after it
C12_Witness ==
  \E i, j \in Delivered("beforeShutdown") :
    i < j /\ life.log[i].x = Lit("L3") /\ life.log[j].x = Lit("L1")

\* instance x is held by the container under a token reported as resolved
ContainerResolved(x) ==
  \E t \in Tokens : registry[t].res /\ (registry[t].inst = x \/ registry[t].val = x)

LastOp(x) == IF x \in DOMAIN life.lastOp THEN life.lastOp[x] ELSE "none"

\* C14: for every instance with an onDestroy hook, when a shutdown collects its
\* instances the hook is invoked if the last of register / unregister called on
\* the instance was register, and is not invoked if the instance is not
\* registered at that moment and is not a resolved container instance.
C14_ManagedTeardown ==
  [][\A c \in DOMAIN life'.calls :
       Entered(c, "destroy") =>
         \A x \in {y \in ManagedInputs : isOnDestroy(y)} :
           /\ LastOp(x) = "register" => Logged(Entry("onDestroy", x, c))
           /\ (LastOp(x) # "register" /\ ~ContainerResolved(x))
                => ~Logged(Entry("onDestroy", x, c))]_vars

\* a shutdown reached its teardown phase after register(a) and unregister(b):
\* a's hook was invoked, b's was not
C14_Witness ==
  /\ LastOp(Inst("Impl", 0)) = "register"
  /\ LastOp(Inst("Base", 0)) = "unregister"
  /\ \E c \in Executions : life.calls[c].pc = "destroy"
  /\ \E i \in Hooked : life.log[i].x = Inst("Impl", 0)
  /\ \A i \in Hooked : life.log[i].x # Inst("Base", 0)

\* the tokens that are registered and were never resolved
Unresolved == {t \in Tokens : registry[t].kind # "none" /\ ~registry[t].res}

\* C15: shutdown never force-resolves: no step of a shutdown resolves a token
\* that is registered but was never resolved, constructs an instance of its
\* class, or invokes onDestroy on anything but a resolved container instance or
\* a managed instance.
C15_NoForceResolve ==
  [][/\ \A t \in Unresolved :
          /\ registry'[t] = registry[t]
          /\ registry[t].kind = "class" =>
                constructed'[registry[t].cls] = constructed[registry[t].cls]
     /\ \A c \in DOMAIN life'.calls : \A x \in ManagedInputs \cup {Inst("Impl", 1)} :
          (Entered(c, "destroy") /\ Logged(Entry("onDestroy", x, c)))
            => (ContainerResolved(x) \/ InSeq(x, life.managedInstances))]_vars

\* a shutdown has collected its instances while TOK was registered and had
\* never been resolved
C15_Witness ==
  /\ "TOK" \in Unresolved
  /\ \E c \in Executions : life.calls[c].pc \in {"destroy", "afterShutdown", "done"}

\* C16: teardown is deduplicated by identity: within one shutdown execution the
\* onDestroy hook of each distinct instance is invoked at most once, however
\* many ways lead to the instance (container token, alias, managed set).
C16_TeardownOnce ==
  \A i, j \in Hooked :
    (life.log[i].x = life.log[j].x /\ life.log[i].call = life.log[j].call) => i = j

\* C17: a shutdown requested by the uncaughtException or unhandledRejection
\* handler never ends in a process exit with code 0, whatever other shutdown
\* requests it interleaves with; under the test harness the process never exits.
C17_FaultExitsNonZero ==
  /\ (\E c \in DOMAIN life.calls : life.calls[c].handler /\ life.calls[c].exitCode = 1)
       => life.exit # 0
  /\ life.testEnv => life.exit = NoExit

\* shutdown() is called in this step after an earlier call has completed
ShutdownAfterCompletion ==
  /\ Len(life'.calls) = Len(life.calls) + 1
  /\ Completed(life)

\* C26: the coordinator leaves the running state once: after shutdown() has set
\* isShuttingDown no operation and no step of the shutdown sequence clears it;
\* under the test harness, where the process does not exit, a shutdown() made
\* after an earlier one has completed returns at the guard, delivers no event
\* and invokes no onDestroy hook.
C26_NoReturnToRunning ==
  /\ [][life.isShuttingDown => life'.isShuttingDown]_vars
  /\ [](Executions # {} => life.isShuttingDown)
  /\ [][ShutdownAfterCompletion =>
          /\ life'.calls[Len(life'.calls)].pc = "returned"
          /\ life'.log = life.log
          /\ UNCHANGED <<registry, constructed, initLog, factoryCalls, seen>>]_vars

\* under the test harness the first shutdown ran to its end, delivering events
\* and invoking a hook, and a second one was made afterwards
C26_Witness ==
  /\ life.testEnv /\ life.exit = NoExit
  /\ Len(life.calls) = 2
  /\ life.calls[1].pc = "done" /\ life.calls[2].pc = "returned"
  /\ life.calls[2].after
  /\ Delivered("afterShutdown") # {} /\ Hooked # {}

----------------------------------------------------------------------------
(* Properties of PluginManager (SpecPlug) *)

\* PluginManager.load(name) is called in this step
StartedLoad(name) ==
  /\ Len(threads') = Len(threads) + 1
  /\ threads'[Len(threads')].kind = "plugin"
  /\ threads'[Len(threads')].mod = name

\* the step changes nothing but the record of the call itself
NothingElseChanged ==
  /\ plugins' = plugins
  /\ loadedModules' = loadedModules /\ lazyModules' = lazyModules
  /\ moduleExports' = moduleExports
  /\ registry' = registry /\ constructed' = constructed /\ initLog' = initLog
  /\ factoryCalls' = factoryCalls
  /\ \A t \in DOMAIN threads : threads'[t] = threads[t]

\* C18: load(name) for a name never registered fails towards the caller and
\* leaves the plugin registry, the loaded plugins, the loaded modules and the
\* container as they were; load(name) for a loaded plugin returns without
\* calling the loader function again and without changing anything.
C18_UnregisteredOrLoaded ==
  [][\A name \in PluginNames :
       StartedLoad(name) =>
         /\ (plugins.registry[name] = Abs /\ name \notin plugins.loaded) =>
              (threads'[Len(threads')].pc = "failed" /\ NothingElseChanged)
         /\ name \in plugins.loaded =>
              (threads'[Len(threads')].pc = "done" /\ NothingElseChanged)]_vars

\* load("ext") completed and a later load("ext") returned at once; the loader
\* function was called once
C18_Witness ==
  /\ \E t \in PluginLoads :
       threads[t].mod = "ext" /\ threads[t].pc = "done" /\ threads[t].cur = "noop"
  /\ plugins.invoked["ext"] = 1

\* load(name) was called twice and both calls have returned; no other load
\* was made
LoadedPluginTwice(name) ==
  /\ Cardinality(PluginLoads) = 2
  /\ \A t \in PluginLoads : threads[t].mod = name /\ threads[t].pc = "done"

\* C19: with "ext" registered to a loader that gives {default: PluginModule},
\* two calls of load("ext") leave "ext" loaded, PluginModule loaded and
\* constructed once, and the onInit of PluginModule and of its provider invoked
\* exactly once.
C19_LoadTwice ==
  (plugins.registry["ext"] = "ldDefault" /\ LoadedPluginTwice("ext")) =>
    /\ isLoaded(plugins, "ext")
    /\ "P" \in loadedModules
    /\ constructed["P"] = 1 /\ InitCount("P") = 1
    /\ constructed["SvcD"] = 1 /\ InitCount("SvcD") = 1

\* the export load() has to pass on: the default export when there is one,
\* otherwise the first export that is defined, Abs when none is
Wanted(moduleImport) ==
  LET defined == {i \in DOMAIN moduleImport.named : moduleImport.named[i] # Abs} IN
  IF moduleImport.default # Abs THEN moduleImport.default
  ELSE IF defined = {} THEN Abs
  ELSE moduleImport.named[CHOOSE i \in defined : \A j \in defined : i <= j]

\* C20: when the loader's result arrives, load() calls loadModule on the default
\* export if there is one and on the first defined named export otherwise; with
\* no defined export the call fails, loads no module and the plugin is never
\* marked loaded.
C20_ModuleChoice ==
  /\ [][\A t \in PluginLoads :
          (threads[t].pc = "loader" /\ threads'[t].pc # "loader") =>
            IF Wanted(threads[t].pend) # Abs
            THEN /\ threads'[t].pc = "module"
                 /\ threads'[t].child = Len(threads) + 1
                 /\ threads'[Len(threads) + 1].kind = "init"
                 /\ threads'[Len(threads) + 1].mod = Wanted(threads[t].pend)
            ELSE /\ threads'[t].pc = "failed"
                 /\ Len(threads') = Len(threads)
                 /\ plugins' = plugins]_vars
  /\ [](\A name \in plugins.loaded :
          Wanted(LoaderResult(plugins.registry[name])) # Abs)

\* a plugin with named exports only had its first defined export loaded, and a
\* plugin with both kinds had its default export loaded
C20_Witness ==
  \E t, u \in PluginLoads :
    /\ threads[t].mod = "named" /\ threads[t].pc = "done" /\ threads[t].child # 0
    /\ threads[threads[t].child].mod = "D"
    /\ threads[u].mod = "both" /\ threads[u].pc = "done" /\ threads[u].child # 0
    /\ threads[threads[u].child].mod = "P"

----------------------------------------------------------------------------
(* Properties of Zenject (SpecBoot) *)

\* some bootstrap() call has come back from `await loadModule(root)` with the
\* load fulfilled
BootCompleted ==
  \E t \in BootCalls :
    /\ threads[t].child # 0 /\ threads[threads[t].child].pc = "done"
    /\ threads[t].pc \in {"afterReady", "done", "failed"}

\* resolve() or the container getter is called in this step
ZenjectRead == Len(zenject'.reads) = Len(zenject.reads) + 1

\* C21: resolve() and the container getter succeed only when a bootstrap() call
\* has completed loadModule(root) with success; before any bootstrap, while one
\* is in flight and after one failed they throw; #ready, once set, stays set.
C21_ReadyGate ==
  /\ [][/\ ZenjectRead =>
            /\ zenject'.reads[Len(zenject'.reads)][2] => BootCompleted
            /\ ~BootCompleted => ~zenject'.reads[Len(zenject'.reads)][2]
        /\ zenject.ready => zenject'.ready]_vars
  /\ [](zenject.ready <=> BootCompleted)

\* the container was read with success after a bootstrap, and a read made
\* before it had thrown
C21_Witness ==
  /\ Len(zenject.reads) = 2
  /\ zenject.reads[1] = <<"container", FALSE>>
  /\ zenject.reads[2] = <<"container", TRUE>>

----------------------------------------------------------------------------
(* Properties of further module graphs (SpecGraph) *)

\* AppContainer.resolve(token) is called in this step and returns
Resolves(token) ==
  /\ Len(resolved') = Len(resolved) + 1
  /\ resolved'[Len(resolved')][1] = token

\* C27: a class provider declared with singleton: false stays per-request
\* whatever modules are loaded, importers of a module exporting it included:
\* every resolution of its token constructs an instance no earlier resolution
\* gave; a class provider without singleton: false gives one shared instance.
C27_TransientStaysTransient ==
  /\ [][Resolves("TOK") =>
          /\ constructed'["Impl"] = constructed["Impl"] + 1
          /\ resolved'[Len(resolved')] = <<"TOK", TRUE, Inst("Impl", constructed'["Impl"])>>]_vars
  /\ [][Resolves("X") =>
          resolved'[Len(resolved')] = <<"X", TRUE, Inst("Base", 1)>>]_vars

RECURSIVE ReachN(_, _)
\* the modules reached from the set S through at most n imports
ReachN(S, n) ==
  IF n = 0 THEN S
  ELSE ReachN(S \cup UNION {{Declared(m).imports[i] : i \in DOMAIN Declared(m).imports} : m \in S},
              n - 1)

Reach(r) == ReachN({r}, Cardinality(ModuleNames))

\* m imports itself through one or more imports
OnCycle(m) ==
  m \in ReachN({Declared(m).imports[i] : i \in DOMAIN Declared(m).imports},
               Cardinality(ModuleNames))

CycleReachable(r) == \E m \in Reach(r) : OnCycle(m)

LoadsOf(r) == {t \in TopLevel : threads[t].mod = r}

\* the roots all of whose provider descriptors have a supported shape
SupportedRoots == GraphRoots \ {"V", "W"}

\* C28: with every hook and factory settling successfully, loadModule(root)
\* eventually completes with root and every module reachable from it in
\* loadedModules exactly when no import cycle is reachable from root; a root
\* on a cycle is re-entered before it is marked loaded and never gets loaded.
C28_TerminatesIffAcyclic ==
  \A r \in SupportedRoots :
    /\ [](CycleReachable(r) =>
            /\ r \notin loadedModules
            /\ \A t \in LoadsOf(r) : threads[t].pc # "done")
    /\ (LoadsOf(r) # {} /\ ~CycleReachable(r))
         ~> (/\ \A t \in LoadsOf(r) : threads[t].pc = "done"
             /\ Reach(r) \subseteq loadedModules)

\* W declares a descriptor of unsupported shape; V imports W
Unloadable == {"V", "W"}

\* C30: an unrecognised provider descriptor in module M, or in a module M
\* imports, makes loadModule(M) fail to its caller: the call never completes
\* successfully and ends as a failure, M never enters loadedModules and the
\* onInit of M is never invoked.
C30_DescriptorErrorPropagates ==
  /\ [](\A m \in Unloadable :
          /\ m \notin loadedModules
          /\ \A e \in DOMAIN initLog : initLog[e].c # m
          /\ \A t \in LoadsOf(m) : threads[t].pc # "done")
  /\ \A m \in Unloadable :
       (LoadsOf(m) # {}) ~> (\A t \in LoadsOf(m) : threads[t].pc = "failed")

\* loadModule(V) has failed: the initializer of W it called registered W's first
\* provider and stopped at the unsupported descriptor
C30_Witness ==
  /\ \E t \in LoadsOf("V") : threads[t].pc = "failed"
  /\ \E u \in DOMAIN threads :
       /\ threads[u].kind = "init" /\ threads[u].mod = "W" /\ threads[u].parent # 0
       /\ threads[u].pc = "failed" /\ threads[u].idx = 2
  /\ registry["SvcD"].kind = "class"
  /\ registry["VAL"].kind = "none"

----------------------------------------------------------------------------
(* Properties of dynamic modules (SpecDyn) *)

\* the initializer of Dy that loadModule would run has the declared options
DyAsDeclared ==
  /\ lazyModules["Dy"].defined
  /\ lazyModules["Dy"].imports = Declared("Dy").imports
  /\ lazyModules["Dy"].providers = Declared("Dy").providers

\* one loadModule call was made, it ran Dy with the declared options and has
\* returned
OneLoadOfDyDone ==
  /\ DyAsDeclared
  /\ Cardinality(TopLevel) = 1
  /\ threads[1].mod = "Dy"
  /\ threads[1].providers = Declared("Dy").providers
  /\ threads[1].pc = "done"

\* the registration of a class resolved once as a singleton
SingletonOf(c) ==
  [kind |-> "class", cls |-> c, val |-> Undef, tok |-> Abs,
   single |-> TRUE, inst |-> Inst(c, 1), res |-> TRUE]

DyOutcome ==
  /\ loadedModules = {"D", "Dy"}
  /\ moduleExports["Dy"] = Declared("Dy").exports
  /\ registry = [t \in Tokens |->
                   IF t \in {"D", "Dy", "SvcD"} THEN SingletonOf(t) ELSE NoReg]

\* C22: a dynamic descriptor and a static declaration with the same name,
\* imports, providers and exports are interchangeable: loadModule on the
\* descriptor stores the initializer and the exports the declaration stores,
\* starts the activations loadModule starts for the declared class, and a
\* finished load ends in the same registrations, moduleExports entry and
\* loadedModules whichever of the two defined the module.
C22_Interchangeable ==
  /\ [][LoadDynamic(DynamicOf("Dy")) =>
          /\ [lazyModules'["Dy"] EXCEPT !.by = "Module"]
               = [defined |-> TRUE, by |-> "Module",
                  imports |-> Declared("Dy").imports,
                  providers |-> Declared("Dy").providers]
          /\ moduleExports'["Dy"] = Declared("Dy").exports
          /\ \E b \in {Len(threads)} :
               SubSeq(threads', b + 1, Len(threads'))
                 = [(Invoke("Dy", b, 0))' EXCEPT ![1].inflight = Cardinality(InFlight)]
       ]_vars
  /\ [](OneLoadOfDyDone => DyOutcome)

C22_Witness ==
  /\ threads # <<>>
  /\ OneLoadOfDyDone
  /\ lazyModules["Dy"].by = "processDynamicModule"
  /\ "Dy" \in loadedModules

\* C23: loadModule on a name that is already in loadedModules, given as the
\* class or as a dynamic descriptor, starts no import closure, registers
\* nothing, calls no factory and no hook, and leaves the container and
\* loadedModules as they were: its initializer returns at the check.
C23_ReloadNoOp ==
  [][(/\ Len(threads') > Len(threads)
      /\ threads'[Len(threads) + 1].parent = 0
      /\ threads'[Len(threads) + 1].mod \in loadedModules)
     => /\ Len(threads') = Len(threads) + 1
        /\ threads'[Len(threads) + 1] =
             [InitThread(threads'[Len(threads) + 1].mod, 0, "done", <<>>, <<>>)
                EXCEPT !.inflight = Cardinality(InFlight)]
        /\ UNCHANGED <<registry, constructed, initLog, factoryCalls, seen,
                       loadedModules>>]_vars

\* Dy was loaded from a descriptor, and a second loadModule on it has returned
C23_Witness ==
  /\ Len(threads) > 3
  /\ "Dy" \in loadedModules
  /\ lazyModules["Dy"].by = "processDynamicModule"
  /\ threads[1].mod = "Dy" /\ threads[1].pc = "done" /\ threads[1].providers # <<>>
  /\ threads[Len(threads)].mod = "Dy" /\ threads[Len(threads)].parent = 0
  /\ threads[Len(threads)].pc = "done" /\ threads[Len(threads)].providers = <<>>


\* the runs of an initializer that went through to loadedModules.add
RanToEnd == {t \in DOMAIN threads :
               threads[t].kind = "init" /\ threads[t].pc = "done" /\ threads[t].sub = "hook"}

\* the imports of run t that have an initializer
DeclaredImports(t) ==
  {threads[t].imports[i] : i \in DOMAIN threads[t].imports}
    \cap {n \in ModuleNames : lazyModules[n].defined}

----------------------------------------------------------------------------
(* Properties of undeclared module references (SpecMissing) *)

\* the activations a step creates
Created == (DOMAIN threads') \ (DOMAIN threads)

\* the modules whose name has no initializer
Undeclared == {n \in ModuleNames : ~lazyModules[n].defined}

\* C35: loading a module reference that has no initializer does nothing: the
\* call completes at once without error, starts no import, registers nothing
\* and leaves loadedModules alone, so that an undeclared name is never loaded;
\* an undeclared entry of an imports list is skipped without export
\* propagation and does not keep the importer from loading; bootstrap on an
\* undeclared root awaits a load that is already complete and then sets ready.
C35_UndeclaredIsNoOp ==
  /\ [](Undeclared \cap loadedModules = {})
  /\ [][\A t \in Created :
          threads'[t].kind \in {"init", "import"} /\ threads'[t].mod \in Undeclared =>
            /\ threads'[t].pc = "done"
            /\ threads'[t].child = 0
            /\ ~\E u \in Created : threads'[u].parent = t
            /\ UNCHANGED <<registry, constructed, initLog, factoryCalls, loadedModules,
                           lazyModules, moduleExports>>]_vars
  /\ [][\A t \in Created :
          threads'[t].kind = "boot" /\ ~zenject.ready /\ zenject.root \in Undeclared =>
            /\ threads'[t].pc = "loading"
            /\ threads'[threads'[t].child].pc = "done"
            /\ Len(threads') = Len(threads) + 2]_vars
  /\ [][\A t \in DOMAIN threads :
          /\ threads[t].kind = "boot" /\ threads[t].pc = "loading"
          /\ threads'[t].pc # "loading" /\ zenject.root \in Undeclared
          => /\ zenject'.ready
             /\ threads'[t].pc # "failed"
             /\ UNCHANGED <<registry, loadedModules>>]_vars

\* B is loaded although its import D is undeclared, and the application on the
\* undeclared root Dy is ready with nothing loaded or registered for Dy
C35_Witness ==
  /\ zenject.root = "Dy" /\ zenject.ready
  /\ "Dy" \in Undeclared
  /\ loadedModules = {"B"}
  /\ \E t \in DOMAIN threads :
       /\ threads[t].kind = "import" /\ threads[t].mod = "D"
       /\ threads[t].pc = "done" /\ threads[t].child = 0
  /\ \E t \in TopLevel : threads[t].mod = "Dy" /\ threads[t].pc = "done"
  /\ ~safeContainerIsRegistered(World, "Dy") /\ ~safeContainerIsRegistered(World, "D")

----------------------------------------------------------------------------
(* Properties of overlapping shutdown calls (SpecLife) *)

\* the shutdown calls that passed the guard and have not settled
InProgress == {c \in Executions : life.calls[c].pc \notin {"done", "failed"}}

----------------------------------------------------------------------------
(* Properties of the exit handlers (SpecLife) *)

\* the step is a call of register(x)
RegisterStep(x) ==
  /\ life'.ops = life.ops + 1
  /\ x \in DOMAIN life'.lastOp /\ life'.lastOp[x] = "register"
  /\ life'.lastOp = Noted(life.lastOp, x, "register")
  /\ life'.listeners = life.listeners

\* C39: the exit handlers are installed at most once, whatever register and
\* unregister calls are made; they are installed by a register call of an
\* instance with onDestroy made when no such call was made before, and every
\* such call leaves them installed; a register call of an instance without
\* onDestroy changes neither the managed instances nor the handlers.
C39_ExitHandlersOnce ==
  /\ [](life.installs <= 1)
  /\ [](life.exitHandlersRegistered <=> life.installs = 1)
  /\ [](~life.exitHandlersRegistered =>
          /\ life.managedInstances = <<>>
          /\ \A x \in DOMAIN life.lastOp :
               life.lastOp[x] = "register" => ~isOnDestroy(x))
  /\ [][life'.installs # life.installs =>
          /\ ~life.exitHandlersRegistered
          /\ life'.installs = 1
          /\ \E x \in ManagedInputs : isOnDestroy(x) /\ RegisterStep(x)]_vars
  /\ [][\A x \in ManagedInputs :
          RegisterStep(x) =>
            IF isOnDestroy(x)
            THEN life'.exitHandlersRegistered /\ InSeq(x, life'.managedInstances)
            ELSE /\ life'.managedInstances = life.managedInstances
                 /\ life'.exitHandlersRegistered = life.exitHandlersRegistered
                 /\ life'.installs = life.installs]_vars

\* two instances with onDestroy were registered, and the handlers were
\* installed once
C39_Witness ==
  /\ Len(life.managedInstances) = 2
  /\ life.installs = 1 /\ life.exitHandlersRegistered

----------------------------------------------------------------------------
(* Properties of failing plugin loads (SpecPlugFail) *)

\* the load() calls of `name` that got through the loader and loadModule
LoadedThrough(name) ==
  {t \in PluginLoads :
     /\ threads[t].mod = name /\ threads[t].pc = "done" /\ threads[t].cur # "noop"
     /\ threads[t].child # 0 /\ threads[threads[t].child].pc = "done"}

\* C38: every loaded plugin is registered; a plugin is loaded only through a
\* load() call whose loader resolved and whose loadModule completed; a load()
\* call that fails leaves the plugin records as they were, and a load() of a
\* registered plugin that is not loaded calls the loader function.
C38_LoadedOnlyOnSuccess ==
  /\ [](\A name \in plugins.loaded :
          isRegistered(plugins, name) /\ LoadedThrough(name) # {})
  /\ [][\A t \in PluginLoads :
          threads[t].pc # "failed" /\ threads'[t].pc = "failed" => plugins' = plugins]_vars
  /\ [][\A name \in PluginNames :
          StartedLoad(name) /\ isRegistered(plugins, name) /\ ~isLoaded(plugins, name) =>
            /\ plugins'.invoked[name] = plugins.invoked[name] + 1
            /\ threads'[Len(threads')].pc = "loader"]_vars

\* load("ext") failed once at the loader and once at loadModule; "ext" is not
\* loaded and its loader function was called both times
C38_Witness ==
  /\ \E t \in PluginLoads :
       threads[t].mod = "ext" /\ threads[t].pc = "failed" /\ threads[t].sub = "loaderfail"
  /\ \E t \in PluginLoads :
       /\ threads[t].mod = "ext" /\ threads[t].pc = "failed" /\ threads[t].child # 0
       /\ threads[threads[t].child].pc = "failed"
  /\ plugins.invoked["ext"] = 2
  /\ ~isLoaded(plugins, "ext") /\ isRegistered(plugins, "ext")

----------------------------------------------------------------------------
(* Properties of visibility (SpecVis) *)

\* the modules a loaded module imports
ImportedByLoaded ==
  {A \in ModuleNames :
     \E B \in loadedModules : \E i \in DOMAIN lazyModules[B].imports :
       lazyModules[B].imports[i] = A}

\* the tokens of the providers these modules declare, exported or not
DeclaredTokens ==
  UNION {{lazyModules[A].providers[k].provide : k \in DOMAIN lazyModules[A].providers} :
         A \in ImportedByLoaded}

\* the tokens of the providers these modules export, declared or not
ExportedTokens ==
  UNION {{moduleExports[A][j].provide : j \in DOMAIN moduleExports[A]} :
         A \in ImportedByLoaded}

----------------------------------------------------------------------------
(* Properties of descriptor replacement (SpecRep) *)

\* the tokens a sequence of providers names
TokensOf(providers) == {providers[k].provide : k \in DOMAIN providers}

\* the tokens of the providers some initializer of N went on to register
RanFor(N) ==
  UNION {TokensOf(threads[t].providers) :
         t \in {u \in DOMAIN threads : threads[u].kind = "init" /\ threads[u].mod = N}}

\* the providers the recorded descriptor of N declares and does not export,
\* and that no initializer of N that ran had
HiddenOf(N) ==
  (TokensOf(lazyModules[N].providers) \ TokensOf(moduleExports[N])) \ RanFor(N)

\* C37: a descriptor processed for a loaded name N replaces the recorded
\* initializer and exports of N, registers nothing and starts no initializer
\* run; a module that imports N propagates the exports recorded when N's
\* initializer returns, and all of them are registered when the propagation
\* ends; the providers the recorded descriptor declares without exporting
\* them stay unregistered.
C37_ReplacedDescriptor ==
  /\ [][lazyModules' # lazyModules /\ "Dy" \in loadedModules =>
          /\ \E dm \in RepInputs :
               /\ lazyModules'["Dy"].providers = dm.providers
               /\ lazyModules'["Dy"].imports = dm.imports
               /\ moduleExports'["Dy"] = dm.exports
          /\ \A t \in Created : threads'[t].pc = "done" /\ threads'[t].providers = <<>>
          /\ UNCHANGED <<registry, constructed, initLog, factoryCalls, loadedModules>>]_vars
  /\ [][\A t \in DOMAIN threads :
          /\ threads[t].kind = "import" /\ threads[t].pc = "waitInit"
          /\ threads'[t].pc \notin {"waitInit", "failed"}
          => threads'[t].providers = moduleExports[threads[t].mod]]_vars
  /\ [][\A t \in DOMAIN threads :
          /\ threads[t].kind = "import" /\ threads[t].child # 0
          /\ threads[t].pc # "done" /\ threads'[t].pc = "done"
          => \A tok \in TokensOf(threads'[t].providers) : registry'[tok].kind # "none"]_vars
  /\ []("Dy" \in loadedModules =>
          \A tok \in HiddenOf("Dy") : ~safeContainerIsRegistered(World, tok))

\* Dy was loaded from its first descriptor and then given the second one; K,
\* which imports Dy, was loaded afterwards: the export TOK of the second
\* descriptor is registered, its provider VAL is not
C37_Witness ==
  /\ "Dy" \in loadedModules /\ "K" \in loadedModules
  /\ RanFor("Dy") = {"SvcD"}
  /\ TokensOf(lazyModules["Dy"].providers) = {"VAL", "TOK"}
  /\ HiddenOf("Dy") = {"VAL"}
  /\ safeContainerIsRegistered(World, "TOK")
  /\ ~safeContainerIsRegistered(World, "VAL")
  /\ \E t \in DOMAIN threads :
       /\ threads[t].kind = "import" /\ threads[t].mod = "Dy" /\ threads[t].pc = "done"
       /\ TokensOf(threads[t].providers) = {"TOK"}

====
